---- MODULE Spec2Model ----
(***************************************************************************)
(* Model of the loss engine of src/models/criterion.py (class              *)
(* SetCriterion): the orchestration done by forward(), the dispatch done   *)
(* by get_loss(), and the four loss functions as far as their control      *)
(* flow, the rows they gather and the divisor they use are concerned.      *)
(*                                                                         *)
(* Tensors of the network are represented by a content number (two         *)
(* tensors with the same number are equal).  A loss value is represented   *)
(* exactly but symbolically: the name of the element-wise function, the    *)
(* content number of the tensor it reads, the rows it gathers, the target  *)
(* rows it pairs them with and the divisor of the final reduction.  A      *)
(* divisor 0 stands for the 0/0 of a mean over no element (NaN).           *)
(* Indices are 0-based as in the source; TLA+ sequences are 1-based, so    *)
(* image number b of the source is position b+1 of the sequence.           *)
(***************************************************************************)
EXTENDS Integers, Sequences, FiniteSets, TLC

\* ----------------------------------------------------------------- bounds
MaxImages == 2      \* images per batch
MaxHois == 1        \* annotated interactions per image
NumSlots == 2       \* prediction slots per image
MaxAux == 2         \* auxiliary decoder layers
MaxLosses == 2      \* length of the configured list of loss names
MaxPeers == 1       \* other workers of the process group
MaxPeerHois == 1    \* annotated interactions in another worker's batch
NumVersions == 2    \* distinct contents of a pred_boxes tensor
MaxBatch == 2       \* images of a batch handed to a single loss function
MaxTargets == 2     \* annotated interactions of such an image
MaxQueries == 3     \* prediction slots of such an image
NumClasses == 3     \* global interaction classes (hoi_id in 0..NumClasses-1)
MaxRows == 3        \* rows of a matrix handed to masked_out_cross_entropy
MaxCols == 3        \* columns of such a matrix

\* ------------------------------------------------------------ small helpers
Min(a, b) == IF a < b THEN a ELSE b

RECURSIVE SumSeq(_)
SumSeq(s) == IF s = <<>> THEN 0 ELSE Head(s) + SumSeq(Tail(s))

RECURSIVE Flatten(_)
Flatten(ss) == IF ss = <<>> THEN <<>> ELSE Head(ss) \o Flatten(Tail(ss))

Range(s) == {s[i] : i \in 1..Len(s)}

\* a dict: a function from a finite set of string keys
EmptyDict == [k \in {} |-> 0]

\* dict.update(other): the keys of other are added or overwritten
Update(d, other) ==
    [k \in DOMAIN d \cup DOMAIN other |->
        IF k \in DOMAIN other THEN other[k] ELSE d[k]]

\* sequences over S without repetition, of length at most n
RECURSIVE DistinctSeqs(_, _)
DistinctSeqs(S, n) ==
    IF n = 0 THEN {<<>>}
    ELSE LET shorter == DistinctSeqs(S, n - 1)
         IN  shorter \cup
             {Append(s, x) : <<s, x>> \in
                 {p \in shorter \X S :
                     /\ Len(p[1]) = n - 1
                     /\ \A i \in 1..Len(p[1]) : p[1][i] # p[2]}}

\* ------------------------------------------------------------ the key names
LossNames == {"labels", "boxes", "confidences", "masks"}
UnknownLoss == "cardinality"
RegionKeys == {"hum_region", "obj_region", "uni_region"}
MatcherKeys == {"logits_per_hoi", "pred_boxes", "box_scores"}
TopKeys == MatcherKeys \cup RegionKeys
AuxKeys == {"pred_boxes", "box_scores"}

\* --------------------------------------------------------------- the targets
\* the record of one image with n annotated interactions
TargetRecord(n) ==
    [hois |-> [k \in 1..n |-> [subject_id |-> 0, object_id |-> 1, hoi_id |-> k - 1]]]

\* ---------------------------------------------------------------- the matcher
\* The matcher is an external callable (outputs, targets) -> Assignment.  It
\* is deterministic, gives every image min(slots, len(hois)) pairs with
\* unique indices, and depends on the predictions it is handed.
MatcherShift(o) ==
    ( (IF "pred_boxes" \in DOMAIN o THEN o["pred_boxes"] ELSE 0)
    + (IF "box_scores" \in DOMAIN o THEN o["box_scores"] ELSE 0)
    + (IF "logits_per_hoi" \in DOMAIN o THEN o["logits_per_hoi"] ELSE 0) ) % NumSlots

matcher(o, tgts) ==
    [b \in 1..Len(tgts) |->
        LET n == Min(NumSlots, Len(tgts[b].hois))
        IN  << [k \in 1..n |-> (k - 1 + MatcherShift(o)) % NumSlots],
               [k \in 1..n |-> k - 1] >>]

\* ------------------------------------------------------ Permutation Indexer
\* _get_src_permutation_idx: batch_idx and src_idx, concatenated over images
BatchIdxOf(ind) ==
    Flatten([b \in 1..Len(ind) |-> [k \in 1..Len(ind[b][1]) |-> b - 1]])
SrcIdxOf(ind) ==
    Flatten([b \in 1..Len(ind) |-> ind[b][1]])
\* variant: the indices of the targets are returned (_get_tgt_permutation_idx)
get_tgt_permutation_idx(ind) ==
    << Flatten([b \in 1..Len(ind) |-> [k \in 1..Len(ind[b][2]) |-> b - 1]]),
       Flatten([b \in 1..Len(ind) |-> ind[b][2]]) >>

get_src_permutation_idx(ind) == <<BatchIdxOf(ind), SrcIdxOf(ind)>>

\* the (image, target interaction) pairs walked by the loops
\* "for t, (_, indices_per_t) in zip(targets, indices): for i in indices_per_t"
TargetRows(ind) ==
    Flatten([b \in 1..Len(ind) |-> [k \in 1..Len(ind[b][2]) |-> <<b - 1, ind[b][2][k]>>]])

\* rows gathered by tensor[idx] (both coordinates) and by tensor[idx[0]]
RowsByIdx(idx) == [k \in 1..Len(idx[1]) |-> <<idx[1][k], idx[2][k]>>]
RowsByBatch(idx) == [k \in 1..Len(idx[1]) |-> <<idx[1][k]>>]

\* ------------------------------------------------------------- loss values
LossValue(f, tensor, pred, tgt, div) ==
    [fn |-> f, tensor |-> tensor, pred |-> pred, tgt |-> tgt, div |-> div]

\* a value is finite unless it is the quotient by a zero divisor
IsFinite(v) == v.div[1] # 0

\* the outcome of a call: a returned dict, or an exception
Returned(d) == [ok |-> TRUE, dict |-> d, err |-> "none"]
Raised(e) == [ok |-> FALSE, dict |-> EmptyDict, err |-> e]

\* ------------------------------------------------------------ Label Resolver
\* variant: consider_all is not read
CompressInTraining(cfg) == cfg.training

\* _get_tgt_labels: class compression is done in training unless consider_all
Compress(cfg) == cfg.training /\ ~cfg.consider_all

\* target_classes_t is None outside class compression
TargetClassesTPresent(cfg) == Compress(cfg)

\* ------------------------------------------------------------ loss functions
\* Every loss function takes (outputs, targets, indices, num_boxes); cfg holds
\* the fields of self that it reads and the behaviour of the torch build.

\* loss_labels.  With no matched prediction target_classes_i is
\* torch.as_tensor([]), a float tensor: it cannot index (focal mode), and
\* F.cross_entropy over no row either rejects the float target or returns the
\* mean over no row, NaN, depending on the build; the text->image term takes
\* argmax over a dimension of size 0, which raises.
loss_labels(o, tgts, ind, nb, cfg) ==
    IF "logits_per_hoi" \notin DOMAIN o THEN Raised("AssertionError")
    ELSE
    LET idx == get_src_permutation_idx(ind)
        m == Len(idx[1])
        rows == RowsByIdx(idx)
        class_error == LossValue("class_error", o["logits_per_hoi"], rows, TargetRows(ind), <<1, 1>>)
    IN  IF cfg.enable_focal_loss
        THEN IF m = 0 THEN Raised("IndexError")
             ELSE Returned(
                    [k \in {"loss_ce", "class_error"} |->
                        IF k = "loss_ce"
                        THEN LossValue("focal", o["logits_per_hoi"], rows, TargetRows(ind), <<m, 1>>)
                        ELSE class_error])
        ELSE IF m = 0 /\ cfg.empty_ce_raises THEN Raised("RuntimeError")
        ELSE IF cfg.training
        THEN IF ~TargetClassesTPresent(cfg) THEN Raised("AttributeError")
             ELSE IF m = 0 THEN Raised("IndexError")
             ELSE Returned(
                    [k \in {"loss_ce", "class_error"} |->
                        IF k = "loss_ce"
                        THEN LossValue("ce_i+ce_t", o["logits_per_hoi"], rows, TargetRows(ind), <<m, 1>>)
                        ELSE class_error])
        ELSE Returned(
                    [k \in {"loss_ce", "class_error"} |->
                        IF k = "loss_ce"
                        THEN LossValue("ce_i", o["logits_per_hoi"], rows, TargetRows(ind), <<m, 1>>)
                        ELSE class_error])

\* variant: the confidence term is filed under a key of the box loss
loss_confidences_colliding(o, tgts, ind, nb, cfg) ==
    IF "box_scores" \notin DOMAIN o THEN Raised("AssertionError")
    ELSE
    LET idx == get_src_permutation_idx(ind)
    IN  Returned(
            [k \in {"loss_bbox"} |->
                LossValue("bce", o["box_scores"], RowsByIdx(idx), <<>>,
                          <<Len(tgts) * NumSlots, 1>>)])

\* loss_confidences: weighted binary cross-entropy, mean over all batch x slots
loss_confidences(o, tgts, ind, nb, cfg) ==
    IF "box_scores" \notin DOMAIN o THEN Raised("AssertionError")
    ELSE
    LET idx == get_src_permutation_idx(ind)
    IN  Returned(
            [k \in {"loss_conf"} |->
                LossValue("bce", o["box_scores"], RowsByIdx(idx), <<>>,
                          <<Len(tgts) * NumSlots, 1>>)])

\* loss_boxes: torch.stack of an empty list of target boxes raises
loss_boxes(o, tgts, ind, nb, cfg) ==
    IF "pred_boxes" \notin DOMAIN o THEN Raised("AssertionError")
    ELSE
    LET idx == get_src_permutation_idx(ind)
        target_boxes == TargetRows(ind)
    IN  IF target_boxes = <<>> THEN Raised("RuntimeError")
        ELSE Returned(
            [k \in {"loss_bbox", "loss_giou"} |->
                LossValue(IF k = "loss_bbox" THEN "l1" ELSE "giou",
                          o["pred_boxes"], RowsByIdx(idx), target_boxes, nb)])

\* variant: the assertion forgets 'uni_region', whose lookup then raises
\* KeyError after the human and object logits have been gathered
loss_masks_partial_assert(o, tgts, ind, nb, cfg) ==
    IF ~({"hum_region", "obj_region"} \subseteq DOMAIN o) THEN Raised("AssertionError")
    ELSE IF "uni_region" \notin DOMAIN o THEN Raised("KeyError")
    ELSE
    LET idx == get_src_permutation_idx(ind)
        target_masks == TargetRows(ind)
        region == [k \in {"loss_hum_mask", "loss_obj_mask", "loss_uni_mask"} |->
                      IF k = "loss_hum_mask" THEN "hum_region"
                      ELSE IF k = "loss_obj_mask" THEN "obj_region" ELSE "uni_region"]
    IN  IF target_masks = <<>> THEN Raised("RuntimeError")
        ELSE Returned(
            [k \in DOMAIN region |->
                LossValue("bce_logits", o[region[k]], RowsByBatch(idx), target_masks,
                          <<Len(idx[1]), 1>>)])

\* loss_masks: the region logits are gathered by idx[0] alone; torch.stack of
\* an empty list of target masks raises; each term is a mean over the rows
loss_masks(o, tgts, ind, nb, cfg) ==
    IF ~(RegionKeys \subseteq DOMAIN o) THEN Raised("AssertionError")
    ELSE
    LET idx == get_src_permutation_idx(ind)
        target_masks == TargetRows(ind)
        region == [k \in {"loss_hum_mask", "loss_obj_mask", "loss_uni_mask"} |->
                      IF k = "loss_hum_mask" THEN "hum_region"
                      ELSE IF k = "loss_obj_mask" THEN "obj_region" ELSE "uni_region"]
    IN  IF target_masks = <<>> THEN Raised("RuntimeError")
        ELSE Returned(
            [k \in DOMAIN region |->
                LossValue("bce_logits", o[region[k]], RowsByBatch(idx), target_masks,
                          <<Len(idx[1]), 1>>)])

\* variant: a name that is not in loss_map is skipped
get_loss_skipping(loss, o, tgts, ind, nb, cfg) ==
    IF loss \notin LossNames THEN Returned(EmptyDict)
    ELSE IF loss = "labels" THEN loss_labels(o, tgts, ind, nb, cfg)
    ELSE IF loss = "boxes" THEN loss_boxes(o, tgts, ind, nb, cfg)
    ELSE IF loss = "confidences" THEN loss_confidences(o, tgts, ind, nb, cfg)
    ELSE loss_masks(o, tgts, ind, nb, cfg)

\* get_loss: the dispatch on the loss name
get_loss(loss, o, tgts, ind, nb, cfg) ==
    IF loss \notin LossNames THEN Raised("AssertionError")
    ELSE IF loss = "labels" THEN loss_labels(o, tgts, ind, nb, cfg)
    ELSE IF loss = "boxes" THEN loss_boxes(o, tgts, ind, nb, cfg)
    ELSE IF loss = "confidences" THEN loss_confidences(o, tgts, ind, nb, cfg)
    ELSE loss_masks(o, tgts, ind, nb, cfg)

\* variant: the layer's keys are merged without a suffix
SuffixedNone(k, i) == k

\* the keys of an auxiliary layer's dict get the suffix _<i>
Suffixed(k, i) == k \o "_" \o ToString(i)
SuffixDict(d, i) ==
    [k \in {Suffixed(j, i) : j \in DOMAIN d} |->
        d[CHOOSE j \in DOMAIN d : Suffixed(j, i) = k]]

\* ---------------------------------------------------------- the normalizer
\* get_world_size(): the size of the process group, 1 without one
get_world_size(isDist, others) == IF isDist THEN 1 + Len(others) ELSE 1

\* variant: the quotient is not clamped
ClampNormalizerUnclamped(total, world) == <<total, world>>

\* torch.clamp(num_boxes / get_world_size(), min=1), as the fraction <<p, q>>
ClampNormalizer(total, world) ==
    IF total < world THEN <<1, 1>> ELSE <<total, world>>

\* ===================================================== the values of the losses
\* The logits stay symbolic: <<b, s, c>> is the entry of logits_per_hoi for
\* slot s of image b and class c.  A loss is a weighted sum of element-wise
\* terms, kept as the sequence of its terms with their rational weights; two
\* losses are the same function of the logits iff every term has the same
\* total weight in both.
RECURSIVE GCD(_, _)
GCD(a, b) == IF b = 0 THEN a ELSE GCD(b, a % b)
Abs(a) == IF a < 0 THEN 0 - a ELSE a
Reduced(f) ==
    IF f[2] = 0 \/ f[1] = 0 THEN f
    ELSE <<f[1] \div GCD(Abs(f[1]), f[2]), f[2] \div GCD(Abs(f[1]), f[2])>>
FAdd(a, b) == Reduced(<<a[1] * b[2] + b[1] * a[2], a[2] * b[2]>>)
FSub(a, b) == Reduced(<<a[1] * b[2] - b[1] * a[2], a[2] * b[2]>>)
FMul(a, b) == Reduced(<<a[1] * b[1], a[2] * b[2]>>)
FEq(a, b) == a[1] * b[2] = b[1] * a[2]

Weighted(t, f) == [term |-> t, w |-> f]
Scale(v, f) == [i \in 1..Len(v) |-> Weighted(v[i].term, FMul(v[i].w, f))]
Terms(v) == {v[i].term : i \in 1..Len(v)}
RECURSIVE TotalWeight(_)
TotalWeight(v) == IF v = <<>> THEN <<0, 1>> ELSE FAdd(Head(v).w, TotalWeight(Tail(v)))

\* A cross-entropy term is logsumexp(over) - at, and the logsumexp of a
\* single entry is the entry: two sums of such terms are the same function of
\* the logits iff every logsumexp over two or more entries and every entry
\* has the same coefficient in both.  The other terms are compared one by one.
LseCoef(v, S) == TotalWeight(SelectSeq(v, LAMBDA e : e.term.fn = "ce" /\ e.term.over = S))
LinCoef(v, a) ==
    FSub(TotalWeight(SelectSeq(v, LAMBDA e : e.term.fn = "ce" /\ e.term.over = {a})),
         TotalWeight(SelectSeq(v, LAMBDA e : e.term.fn = "ce" /\ e.term.at = a)))
Coef(v, t) == TotalWeight(SelectSeq(v, LAMBDA e : e.term = t))
SameValue(v, w) ==
    LET terms == Terms(v) \cup Terms(w)
    IN  /\ \A t \in terms : t.fn = "ce" =>
              /\ Cardinality(t.over) >= 2 => FEq(LseCoef(v, t.over), LseCoef(w, t.over))
              /\ \A a \in t.over : FEq(LinCoef(v, a), LinCoef(w, a))
        /\ \A t \in terms : t.fn # "ce" => FEq(Coef(v, t), Coef(w, t))

\* tensor[rows][:, :n] and tensor.t() of a matrix kept as the sequence of its rows
FirstColumns(mat, n) == [r \in 1..Len(mat) |-> SubSeq(mat[r], 1, n)]
Transpose(mat, ncols) == [c \in 1..ncols |-> [r \in 1..Len(mat) |-> mat[r][c]]]
Positions(n) == [i \in 1..n |-> i]

\* src_logits[idx]: one row per matched prediction, over all the classes
GatherLogits(idx) ==
    [r \in 1..Len(idx[1]) |-> [c \in 1..NumClasses |-> <<idx[1][r], idx[2][r], c - 1>>]]

\* F.cross_entropy of one row against the class index t: -log softmax(row)[t]
CETerm(row, t) == [fn |-> "ce", over |-> Range(row), at |-> row[t + 1], y |-> 1]
cross_entropy_sum(logits, tgt) ==
    [r \in 1..Len(logits) |-> Weighted(CETerm(logits[r], tgt[r]), <<1, 1>>)]
cross_entropy_mean(logits, tgt) ==
    Scale(cross_entropy_sum(logits, tgt), <<1, Len(logits)>>)

\* torch.argmax over a 0/1 row: the index of the first maximal value
ArgMax(row) ==
    IF \E j \in 1..Len(row) : row[j] = 1
    THEN (CHOOSE j \in 1..Len(row) : row[j] = 1 /\ \A q \in 1..(j - 1) : row[q] = 0) - 1
    ELSE 0

\* ------------------------------------------------ masked_out_cross_entropy
\* variant: the threshold of the single-positive branch is off by one
OnePosRowsNone(target_classes) ==
    SelectSeq(Positions(Len(target_classes)), LAMBDA i : SumSeq(target_classes[i]) < 1)

\* lines 114-117: the rows with num_pos < 2 and the class index of each
OnePosRows(target_classes) ==
    SelectSeq(Positions(Len(target_classes)), LAMBDA i : SumSeq(target_classes[i]) < 2)
targets_one_pos(target_classes) ==
    [k \in 1..Len(OnePosRows(target_classes)) |->
        ArgMax(target_classes[OnePosRows(target_classes)[k]])]
\* line 122: the rows with num_pos > 1
MultiPosRows(target_classes) ==
    SelectSeq(Positions(Len(target_classes)), LAMBDA i : SumSeq(target_classes[i]) > 1)
\* variant: no column is masked out
KeptColumnsAll(t, j) == Positions(Len(t))

\* lines 127-131: mask = (t == 0); mask[j] = True; the row restricted to mask
KeptColumns(t, j) == SelectSeq(Positions(Len(t)), LAMBDA c : t[c] = 0 \/ c = j)
Restrict(row, cols) == [k \in 1..Len(cols) |-> row[cols[k]]]
\* lines 123-132: one term per positive column of the row, divided by cnt
MultiPosTerms(row, t) ==
    LET pos == SelectSeq(Positions(Len(t)), LAMBDA c : t[c] # 0)
    IN  [k \in 1..Len(pos) |->
            Weighted(CETerm(Restrict(row, KeptColumns(t, pos[k])),
                            ArgMax(Restrict(t, KeptColumns(t, pos[k])))),
                     <<1, SumSeq(t)>>)]

\* variant: the sum is divided by the number of columns
masked_out_cross_entropy_by_columns(src_logits, target_classes) ==
    LET one == OnePosRows(target_classes)
        multi == MultiPosRows(target_classes)
        loss1 == cross_entropy_sum(Restrict(src_logits, one), targets_one_pos(target_classes))
        loss2 == Flatten([k \in 1..Len(multi) |->
                            MultiPosTerms(src_logits[multi[k]], target_classes[multi[k]])])
    IN  Scale(loss1 \o loss2, <<1, Len(src_logits[1])>>)

\* lines 112-134
masked_out_cross_entropy(src_logits, target_classes) ==
    LET one == OnePosRows(target_classes)
        multi == MultiPosRows(target_classes)
        loss1 == cross_entropy_sum(Restrict(src_logits, one), targets_one_pos(target_classes))
        loss2 == Flatten([k \in 1..Len(multi) |->
                            MultiPosTerms(src_logits[multi[k]], target_classes[multi[k]])])
    IN  Scale(loss1 \o loss2, <<1, Len(src_logits)>>)

\* ----------------------------------------------------------- _get_tgt_labels
\* variant: the interactions of an image are walked from the last to the first
AllHoiIdsReversed(tgts) ==
    Flatten([b \in 1..Len(tgts) |->
                [k \in 1..Len(tgts[b].hois) |->
                    tgts[b].hois[Len(tgts[b].hois) + 1 - k].hoi_id]])

\* lines 245-251: global hoi_id -> batch-local id, in order of first appearance
AllHoiIds(tgts) ==
    Flatten([b \in 1..Len(tgts) |->
                [k \in 1..Len(tgts[b].hois) |-> tgts[b].hois[k].hoi_id]])
\* variant: the global id is kept as the local id
RECURSIVE UniqueHoisUncompressed(_, _)
UniqueHoisUncompressed(ids, d) ==
    IF ids = <<>> THEN d
    ELSE IF Head(ids) \in DOMAIN d THEN UniqueHoisUncompressed(Tail(ids), d)
    ELSE UniqueHoisUncompressed(Tail(ids), Update(d, [x \in {Head(ids)} |-> Head(ids)]))

RECURSIVE UniqueHois(_, _)
UniqueHois(ids, d) ==
    IF ids = <<>> THEN d
    ELSE IF Head(ids) \in DOMAIN d THEN UniqueHois(Tail(ids), d)
    ELSE UniqueHois(Tail(ids), Update(d, [x \in {Head(ids)} |-> Cardinality(DOMAIN d)]))
unique_hois(tgts) == UniqueHois(AllHoiIds(tgts), EmptyDict)

\* the hoi_id of the target interaction of every matched prediction
MatchedHoiIds(tgts, ind) ==
    [r \in 1..Len(TargetRows(ind)) |->
        tgts[TargetRows(ind)[r][1] + 1].hois[TargetRows(ind)[r][2] + 1].hoi_id]

\* a matrix with its shape (a matrix without rows still has its columns)
Matrix(nrows, ncols, at) == [shape |-> <<nrows, ncols>>, at |-> at]
None == [shape |-> <<>>, at |-> <<>>]

\* _get_tgt_labels: <<target_classes_i, target_classes_t>>
get_tgt_labels(tgts, ind, cfg) ==
    IF Compress(cfg)
    THEN LET u == unique_hois(tgts)
             cnt == Cardinality(DOMAIN u)
             tci == [r \in 1..Len(TargetRows(ind)) |-> u[MatchedHoiIds(tgts, ind)[r]]]
             num_fgs == Len(SrcIdxOf(ind))
         IN  << tci,
                Matrix(num_fgs, cnt,
                       [r \in 1..num_fgs |-> [c \in 1..cnt |->
                           IF r <= Len(tci) /\ tci[r] = c - 1 THEN 1 ELSE 0]]) >>
    ELSE << MatchedHoiIds(tgts, ind), None >>

\* ----------------------------------------------- the value of loss_labels
\* lines 68-71 of binary_focal_loss_with_logits: the element-wise loss of x
\* against the binary labels y, one term per entry
FocalTerm(entry, label) == [fn |-> "focal", over |-> {entry}, at |-> entry, y |-> label]
focal_elementwise(x, y) ==
    [r \in 1..Len(x) |-> [c \in 1..Len(x[r]) |-> FocalTerm(x[r][c], y[r][c])]]

\* the outcome of the helper: a scalar (a weighted sum of terms), the
\* unreduced tensor, or the ValueError with its message
FocalReturned(kind, v) == [ok |-> TRUE, err |-> "none", msg |-> "", kind |-> kind, value |-> v]
FocalRaised(m) == [ok |-> FALSE, err |-> "ValueError", msg |-> m, kind |-> "none", value |-> <<>>]
SumOfTerms(loss) == [i \in 1..Len(Flatten(loss)) |-> Weighted(Flatten(loss)[i], <<1, 1>>)]

\* variant: an unknown reduction leaves the loss unreduced
focal_reduce_lenient(loss, reduction) ==
    IF reduction = "mean"
    THEN FocalReturned("scalar", Scale(SumOfTerms(loss), <<1, Len(Flatten(loss))>>))
    ELSE IF reduction = "sum" THEN FocalReturned("scalar", SumOfTerms(loss))
    ELSE FocalReturned("tensor", loss)

\* lines 72-79: the dispatch on reduction
focal_reduce(loss, reduction) ==
    IF reduction = "mean"
    THEN FocalReturned("scalar", Scale(SumOfTerms(loss), <<1, Len(Flatten(loss))>>))
    ELSE IF reduction = "sum" THEN FocalReturned("scalar", SumOfTerms(loss))
    ELSE IF reduction = "none" THEN FocalReturned("tensor", loss)
    ELSE FocalRaised("Unsupported reduction method " \o reduction)

binary_focal_loss_with_logits(x, y, reduction) ==
    focal_reduce(focal_elementwise(x, y), reduction)

\* variant: the 1 of every row is written in column 0
focal_labels_first_column(rows, tci) ==
    [r \in 1..Len(rows) |-> [c \in 1..Len(rows[r]) |-> IF c = 1 THEN 1 ELSE 0]]

\* lines 91-92: labels = zeros_like(src_logits[idx]); labels[arange, target_classes_i] = 1
focal_labels(rows, tci) ==
    [r \in 1..Len(rows) |-> [c \in 1..Len(rows[r]) |-> IF tci[r] = c - 1 THEN 1 ELSE 0]]

\* line 93: the reduction loss_labels asks for
FocalReduction == "sum"

\* lines 91-94: the helper's sum over the matched rows and classes, over len(labels)
focal_loss(rows, tci) ==
    Scale(binary_focal_loss_with_logits(rows, focal_labels(rows, tci), FocalReduction).value,
          <<1, Len(focal_labels(rows, tci))>>)

\* variant: the two terms are added and not averaged
contrastive_loss_sum(rows, tci, tct, cfg) ==
    LET loss_i == cross_entropy_mean(rows, tci)
    IN  IF cfg.training
        THEN LET num_tgts == tct.shape[2]
                 loss_t == masked_out_cross_entropy(
                               Transpose(FirstColumns(rows, num_tgts), num_tgts),
                               Transpose(tct.at, num_tgts))
             IN  loss_i \o loss_t
        ELSE loss_i

\* lines 98-105: loss_i, and in training (loss_i + loss_t) / 2
contrastive_loss(rows, tci, tct, cfg) ==
    LET loss_i == cross_entropy_mean(rows, tci)
    IN  IF cfg.training
        THEN LET num_tgts == tct.shape[2]
                 loss_t == masked_out_cross_entropy(
                               Transpose(FirstColumns(rows, num_tgts), num_tgts),
                               Transpose(tct.at, num_tgts))
             IN  Scale(loss_i \o loss_t, <<1, 2>>)
        ELSE loss_i

\* the outcome of loss_labels: the value of 'loss_ce', NaN, or an exception
Value(v) == [ok |-> TRUE, err |-> "none", value |-> v, nan |-> FALSE]
NaN == [ok |-> TRUE, err |-> "none", value |-> <<>>, nan |-> TRUE]

\* lines 89-105 of loss_labels, given the results of lines 87 and 88
labels_loss(idx, tci, tct, cfg) ==
    LET rows == GatherLogits(idx)
        m == Len(rows)
    IN  IF cfg.enable_focal_loss
        THEN IF m = 0 THEN Raised("IndexError") ELSE Value(focal_loss(rows, tci))
        ELSE IF m = 0 /\ cfg.empty_ce_raises THEN Raised("RuntimeError")
        ELSE IF cfg.training /\ tct = None THEN Raised("AttributeError")
        ELSE IF cfg.training /\ m = 0 THEN Raised("IndexError")
        ELSE IF m = 0 THEN NaN
        ELSE Value(contrastive_loss(rows, tci, tct, cfg))

\* ------------------------------------------- the value of loss_confidences
\* tensor[idx] = values, on a [batch, slots] tensor kept as one row per image
IndexPut(mat, idx, values) ==
    [b \in 1..Len(mat) |-> [s \in 1..Len(mat[b]) |->
        IF \E k \in 1..Len(idx[1]) : idx[1][k] = b - 1 /\ idx[2][k] = s - 1
        THEN values[CHOOSE k \in 1..Len(idx[1]) :
                       /\ idx[1][k] = b - 1 /\ idx[2][k] = s - 1
                       /\ \A q \in (k + 1)..Len(idx[1]) :
                             ~(idx[1][q] = b - 1 /\ idx[2][q] = s - 1)]
        ELSE mat[b][s]]]
Full(shape, v) == [b \in 1..Len(shape) |-> [s \in 1..Len(shape[b]) |-> v]]

\* lines 141-145: target_classes, 1 at the matched slots
confidence_targets(box_scores, ind) ==
    LET idx == get_src_permutation_idx(ind)
        target_classes_o == Flatten([b \in 1..Len(ind) |-> [k \in 1..Len(ind[b][2]) |-> 1]])
    IN  IndexPut(Full(box_scores, 0), idx, target_classes_o)

\* variant: the weight of the matched slots is left at eos_coef
confidence_weight_unset(box_scores, ind, eos_coef) == Full(box_scores, eos_coef)

\* lines 147-148: weight, eos_coef everywhere and 1 at the matched slots
confidence_weight(box_scores, ind, eos_coef) ==
    LET idx == get_src_permutation_idx(ind)
    IN  IndexPut(Full(box_scores, eos_coef), idx, [k \in 1..Len(idx[1]) |-> <<1, 1>>])

\* line 149: F.binary_cross_entropy(input, target, weight): the mean of the
\* weighted element-wise terms over all the entries
BceTerm(entry, label) == [fn |-> "bce", over |-> {entry}, at |-> entry, y |-> label]
binary_cross_entropy(scores, tc, w) ==
    Scale(Flatten([b \in 1..Len(scores) |-> [s \in 1..Len(scores[b]) |->
              Weighted(BceTerm(scores[b][s], tc[b][s]), w[b][s])]]),
          <<1, Len(Flatten(scores))>>)

\* --------------------------------------------------- the value of loss_boxes
\* A box is <<cx, cy, w, h>> on an integer grid.  utils.box_ops:
\* box_cxcywh_to_xyxy gives (cx - w/2, cy - h/2, cx + w/2, cy + h/2), kept here
\* in half grid units; generalized_box_iou is iou - (enclosing - union) / enclosing.
Max(a, b) == IF a > b THEN a ELSE b
box_cxcywh_to_xyxy(b) == <<2 * b[1] - b[3], 2 * b[2] - b[4], 2 * b[1] + b[3], 2 * b[2] + b[4]>>
box_area(x) == (x[3] - x[1]) * (x[4] - x[2])
box_inter(x, y) ==
    Max(0, Min(x[3], y[3]) - Max(x[1], y[1])) * Max(0, Min(x[4], y[4]) - Max(x[2], y[2]))
box_giou(x, y) ==
    LET union == box_area(x) + box_area(y) - box_inter(x, y)
        enclosing == (Max(x[3], y[3]) - Min(x[1], y[1])) * (Max(x[4], y[4]) - Min(x[2], y[2]))
    IN  FSub(<<box_inter(x, y), union>>, <<enclosing - union, enclosing>>)
\* the [N, M] matrix of all pairs, and torch.diag of it
generalized_box_iou(boxes1, boxes2) ==
    [i \in 1..Len(boxes1) |-> [j \in 1..Len(boxes2) |-> box_giou(boxes1[i], boxes2[j])]]
\* variant: every prediction is compared with the first target
DiagFirstColumn(mat) == [i \in 1..Len(mat) |-> mat[i][1]]

Diag(mat) == [i \in 1..Len(mat) |-> mat[i][i]]

\* line 160: outputs['pred_boxes'][idx], a row is <<subject box, object box>>
gather_src_boxes(pred_boxes, ind) ==
    LET idx == get_src_permutation_idx(ind)
    IN  [r \in 1..Len(idx[1]) |-> pred_boxes[idx[1][r] + 1][idx[2][r] + 1]]

\* variant: the subject and the object box of the target are exchanged
gather_target_boxes_swapped(tgts, ind) ==
    [r \in 1..Len(TargetRows(ind)) |->
        LET t == tgts[TargetRows(ind)[r][1] + 1]
            hoi == t.hois[TargetRows(ind)[r][2] + 1]
        IN  <<t.boxes[hoi.object_id + 1], t.boxes[hoi.subject_id + 1]>>]

\* lines 161-166: torch.cat([t["boxes"][person_id], t["boxes"][object_id]])
gather_target_boxes(tgts, ind) ==
    [r \in 1..Len(TargetRows(ind)) |->
        LET t == tgts[TargetRows(ind)[r][1] + 1]
            hoi == t.hois[TargetRows(ind)[r][2] + 1]
        IN  <<t.boxes[hoi.subject_id + 1], t.boxes[hoi.object_id + 1]>>]

\* lines 169-170: F.l1_loss(..., reduction='none') on the columns of one box
l1_loss(src, tgt, which) ==
    [r \in 1..Len(src) |-> [c \in 1..4 |-> Abs(src[r][which][c] - tgt[r][which][c])]]

\* lines 175-180: 1 - torch.diag(generalized_box_iou(xyxy(src), xyxy(tgt)))
giou_loss(src, tgt, which) ==
    LET d == Diag(generalized_box_iou(
                 [r \in 1..Len(src) |-> box_cxcywh_to_xyxy(src[r][which])],
                 [r \in 1..Len(tgt) |-> box_cxcywh_to_xyxy(tgt[r][which])]))
    IN  [r \in 1..Len(d) |-> FSub(<<1, 1>>, d[r])]

RECURSIVE FSum(_)
FSum(fs) == IF fs = <<>> THEN <<0, 1>> ELSE FAdd(Head(fs), FSum(Tail(fs)))
\* x.sum() / num_boxes, num_boxes the fraction <<p, q>>
SumOverNormalizer(fs, nb) == FMul(FSum(fs), <<nb[2], nb[1]>>)

\* --------------------------------------------------- the value of loss_masks
\* outputs['hum_region'] and the two others hold one map of region logits per
\* image, [bs, patch_dim, patch_dim] (HOIDetector.forward), entry
\* <<name, b, i, j>>; t["mask_region_hw"] holds one 0/1 map per box.

\* variant: the map of the first image is taken for every row
gather_regions_first_image(region, ind) ==
    [k \in 1..Len(BatchIdxOf(ind)) |-> region[1]]

\* lines 193-195: outputs[...][idx[0]], the map of the image of every matched row
gather_regions(region, ind) ==
    [k \in 1..Len(BatchIdxOf(ind)) |-> region[BatchIdxOf(ind)[k] + 1]]

\* lines 201-206: t["mask_region_hw"][person_id] or [object_id] of every matched row
gather_target_masks(tgts, ind, role) ==
    [r \in 1..Len(TargetRows(ind)) |->
        LET t == tgts[TargetRows(ind)[r][1] + 1]
            hoi == t.hois[TargetRows(ind)[r][2] + 1]
        IN  t.mask_region_hw[hoi[role] + 1]]

\* line 213: torch.max(a, b), element-wise
elementwise_max(a, b) ==
    [r \in 1..Len(a) |-> [i \in 1..Len(a[r]) |-> [j \in 1..Len(a[r][i]) |->
        Max(a[r][i][j], b[r][i][j])]]]

\* lines 216-220: F.binary_cross_entropy_with_logits(pred, target, reduction='mean')
BceLogitsTerm(entry, label) == [fn |-> "bce_logits", over |-> {entry}, at |-> entry, y |-> label]
bce_with_logits_mean(pred, tgt) ==
    LET terms == Flatten(Flatten([r \in 1..Len(pred) |-> [i \in 1..Len(pred[r]) |->
                     [j \in 1..Len(pred[r][i]) |->
                         Weighted(BceLogitsTerm(pred[r][i][j], tgt[r][i][j]), <<1, 1>>)]]]))
    IN  Scale(terms, <<1, Len(terms)>>)

\* ================================================================= the state
VARIABLES
    self,         \* the fields of the criterion set by __init__ and train()/eval()
    env,          \* what surrounds the call: the process group, the torch build, the matcher
    outputs,      \* the top-level outputs dict without its 'aux_outputs' entry
    aux_outputs,  \* outputs['aux_outputs']: the dicts of the auxiliary layers
    targets,      \* the list of target records
    pc,           \* the position of forward()
    indices,      \* the local variable indices of forward()
    num_boxes,    \* the local variable num_boxes of forward(), a fraction <<p, q>>
    losses,       \* the local dict losses of forward()
    li,           \* position in "for loss in self.losses" (1-based)
    ai,           \* the i of "for i, aux_outputs in enumerate(...)" (0-based)
    aj,           \* position in "for loss in ['boxes', 'confidences']" (1-based)
    result,       \* what forward() returned
    err,          \* the exception that left forward(), "none" otherwise
    log,          \* history: the matcher and loss-function calls of this forward()
    call,         \* 1 in the first forward(), 2 in the second one on the same objects
    first,        \* history: the outcome of the first forward()
    before,       \* history: outputs and aux_outputs as they were before the first forward()
    \* the workers of a training job, each running lines 292-302 of forward()
    wdist,        \* is_dist_avail_and_initialized(): a process group is active
    wcount,       \* per worker: the number of interactions in its batch
    wpc,          \* per worker: the position in forward()
    wnum,         \* per worker: its num_boxes, a fraction <<p, q>>
    arrived,      \* the workers that have entered the all_reduce
    wpassed,      \* per worker: the normalizers handed to its loss functions
    \* one call of a single function of the criterion, on inputs of its own
    fpc,              \* the position in that call
    idx,              \* the pair returned by _get_src_permutation_idx
    target_classes_i, \* first result of _get_tgt_labels
    target_classes_t, \* second result of _get_tgt_labels
    loss_ce,          \* the outcome of loss_labels
    src_logits,       \* the logits handed to masked_out_cross_entropy
    target_classes,   \* the indicator matrix handed to masked_out_cross_entropy
    loss_t,           \* the value masked_out_cross_entropy returned
    box_scores,       \* outputs['box_scores'].sigmoid(), one row per image
    weight,           \* the tensor weight of loss_confidences
    loss_conf,        \* the value of 'loss_conf'
    pred_boxes,       \* outputs['pred_boxes'], per image and slot <<subject box, object box>>
    src_boxes,        \* the local src_boxes of loss_boxes
    target_boxes,     \* the local target_boxes of loss_boxes
    box_terms,        \* the locals loss_pbbox, loss_obbox, loss_pgiou, loss_ogiou
    box_losses,       \* the dict loss_boxes returns
    regions,          \* outputs['hum_region'], ['obj_region'], ['uni_region']
    pred_regions,     \* the locals pred_hum_region, pred_obj_region, pred_uni_region
    target_masks,     \* the locals target_hum_masks, target_obj_masks, target_uni_mask
    mask_losses,      \* the dict loss_masks returns
    focal_via,        \* who calls binary_focal_loss_with_logits
    focal_xy,         \* its arguments x and y
    reduction,        \* its argument reduction
    focal_elems,      \* its local loss, before the reduction
    focal_ret         \* what it returned or raised

distVars == <<wdist, wcount, wpc, wnum, arrived, wpassed>>

labelVars == <<fpc, idx, target_classes_i, target_classes_t, loss_ce>>
labelVarsButPc == <<idx, target_classes_i, target_classes_t, loss_ce>>
maskedVars == <<src_logits, target_classes, loss_t>>
confVars == <<box_scores, weight, loss_conf>>
boxVars == <<pred_boxes, src_boxes, target_boxes, box_terms, box_losses>>
regionVars == <<regions, pred_regions, target_masks, mask_losses>>
focalVars == <<focal_via, focal_xy, reduction, focal_elems, focal_ret>>
fnVars == <<labelVars, maskedVars, confVars, boxVars, regionVars, focalVars>>

vars == <<self, env, outputs, aux_outputs, targets, pc, indices, num_boxes, losses,
          li, ai, aj, result, err, log, call, first, before, distVars, fnVars>>

NoResult == [losses |-> EmptyDict, indices |-> <<>>]
\* variant: the classification loss is computed for the layers as well
AuxLossNamesWithLabels == <<"labels", "boxes", "confidences">>

AuxLossNames == <<"boxes", "confidences">>
Primary == -1     \* the layer number the history gives to the top-level outputs

cfg == [enable_focal_loss |-> self.enable_focal_loss,
        training |-> self.training,
        consider_all |-> self.consider_all,
        empty_ce_raises |-> env.empty_ce_raises]

HasAux == aux_outputs # <<>>

\* ------------------------------------------------------------------ Init
\* the content numbers of the tensors of a layer
TopOutputs(keys) ==
    [k \in keys |-> IF k = "logits_per_hoi" THEN 1 ELSE 0]
AuxLayer(keys, version) ==
    [k \in keys |-> IF k = "pred_boxes" THEN version ELSE 0]

\* at most one required key is missing, at the top level or in one layer
MissingChoices(n) ==
    {<<Primary, "none">>} \cup {<<Primary, k>> : k \in TopKeys}
        \cup {<<i, k>> : i \in 0..(n - 1), k \in AuxKeys}

TargetChoices ==
    UNION {{[b \in 1..n |-> TargetRecord(c[b])] : c \in [1..n -> 0..MaxHois]} : n \in 1..MaxImages}

PeerChoices ==
    UNION {[1..n -> 0..MaxPeerHois] : n \in 0..MaxPeers}

\* build_model lists the enabled names in the order labels, boxes, confidences,
\* masks; a name that get_loss does not know may stand anywhere in the list
Rank(name) ==
    IF name = "labels" THEN 1 ELSE IF name = "boxes" THEN 2
    ELSE IF name = "confidences" THEN 3 ELSE 4
LossLists ==
    {s \in DistinctSeqs(LossNames \cup {UnknownLoss}, MaxLosses) :
        \A i, j \in 1..Len(s) :
            (i < j /\ s[i] \in LossNames /\ s[j] \in LossNames) => Rank(s[i]) < Rank(s[j])}

Init ==
    /\ \E ls \in LossLists, f \in BOOLEAN, t \in BOOLEAN, c \in BOOLEAN :
          \* the mode flags are read by loss_labels only
          /\ ("labels" \notin Range(ls) => ~f /\ ~t /\ ~c)
          \* "self.training and not self.consider_all" reads the flag in training only
          /\ (~t => ~c)
          /\ self = [losses |-> ls, enable_focal_loss |-> f, training |-> t, consider_all |-> c]
    /\ targets \in TargetChoices
    /\ \E n \in 0..MaxAux, vs \in [1..MaxAux -> 0..(NumVersions - 1)] :
          \E miss \in MissingChoices(n) :
             /\ \A i \in 1..MaxAux : i > n => vs[i] = 0
             \* the region keys are read by loss_masks only
             /\ (miss[2] \in RegionKeys => "masks" \in Range(self.losses))
             /\ outputs = TopOutputs(IF miss[1] = Primary THEN TopKeys \ {miss[2]} ELSE TopKeys)
             /\ aux_outputs = [i \in 1..n |->
                    AuxLayer(IF miss[1] = i - 1 THEN AuxKeys \ {miss[2]} ELSE AuxKeys, vs[i])]
    /\ \E d \in BOOLEAN, ps \in PeerChoices, e \in BOOLEAN, sm \in BOOLEAN :
          /\ (d <=> ps # <<>>)
          \* the build's treatment of an empty cross-entropy is met only with no match
          /\ (e => \A b \in 1..Len(targets) : targets[b].hois = <<>>)
          \* the matcher's treatment of a missing key is met only when one is missing
          /\ (~sm => \/ ~(MatcherKeys \subseteq DOMAIN outputs)
                     \/ \E i \in 1..Len(aux_outputs) : ~(AuxKeys \subseteq DOMAIN aux_outputs[i]))
          /\ env = [dist |-> d, peers |-> ps, empty_ce_raises |-> e, strict_matcher |-> sm]
    /\ pc = "start"
    /\ indices = <<>>
    /\ num_boxes = <<0, 1>>
    /\ losses = EmptyDict
    /\ li = 1
    /\ ai = 0
    /\ aj = 1
    /\ result = NoResult
    /\ err = "none"
    /\ log = <<>>
    /\ call = 1
    /\ first = [pc |-> "none", result |-> NoResult, err |-> "none"]
    /\ before = [outputs |-> outputs, aux_outputs |-> aux_outputs]
    /\ wdist = FALSE
    /\ wcount = <<>>
    /\ wpc = <<>>
    /\ wnum = <<>>
    /\ arrived = {}
    /\ wpassed = <<>>
    /\ fpc = "idle"
    /\ idx = <<>>
    /\ target_classes_i = <<>>
    /\ target_classes_t = <<>>
    /\ loss_ce = <<>>
    /\ src_logits = <<>>
    /\ target_classes = <<>>
    /\ loss_t = <<>>
    /\ box_scores = <<>>
    /\ weight = <<>>
    /\ loss_conf = <<>>
    /\ pred_boxes = <<>>
    /\ src_boxes = <<>>
    /\ target_boxes = <<>>
    /\ box_terms = <<>>
    /\ box_losses = <<>>
    /\ regions = <<>>
    /\ pred_regions = <<>>
    /\ target_masks = <<>>
    /\ mask_losses = <<>>
    /\ focal_via = "none"
    /\ focal_xy = <<>>
    /\ reduction = "unset"
    /\ focal_elems = <<>>
    /\ focal_ret = <<>>

\* ---------------------------------------------------------------- forward()
MatcherEvent(layer, ind) ==
    [ev |-> "matcher", layer |-> layer, name |-> "matcher", ind |-> ind, nb |-> <<0, 1>>]
LossEvent(layer, name, ind, nb) ==
    [ev |-> "loss", layer |-> layer, name |-> name, ind |-> ind, nb |-> nb]

\* variant: the whole top-level dict is merged into the layer's dict
InjectLogitsWholeDict(layer, o) == Update(layer, o)

\* line 306: aux_outputs.update({'logits_per_hoi': outputs['logits_per_hoi']})
InjectLogits(layer, o) ==
    Update(layer, [k \in {"logits_per_hoi"} |-> o["logits_per_hoi"]])

\* variant: the previous assignment is reused for the layer
AuxAssignmentReused(old, new, tgts, ind) == ind

\* variant: the matcher is handed the layer's dict as it was before line 306
AuxAssignmentBeforeUpdate(old, new, tgts, ind) == matcher(old, tgts)

\* line 307: indices = self.matcher(aux_outputs, targets), on the updated dict;
\* old is the layer's dict before line 306, ind the value indices had
AuxAssignment(old, new, tgts, ind) == matcher(new, tgts)

\* an exception leaves forward(): nothing is returned
Fail(e) ==
    /\ pc' = "failed"
    /\ err' = e
    /\ result' = NoResult

\* a strict matcher reads all its keys and raises KeyError on a missing one
MatcherRaises(o) == env.strict_matcher /\ ~(MatcherKeys \subseteq DOMAIN o)

\* line 290: indices = self.matcher(outputs, targets)
MatchPrimary ==
    /\ pc = "start"
    /\ IF MatcherRaises(outputs)
       THEN /\ Fail("KeyError")
            /\ UNCHANGED <<indices, log>>
       ELSE /\ indices' = matcher(outputs, targets)
            /\ log' = Append(log, MatcherEvent(Primary, matcher(outputs, targets)))
            /\ pc' = "count"
            /\ UNCHANGED <<err, result>>
    /\ UNCHANGED <<distVars, fnVars, self, env, outputs, aux_outputs, targets, num_boxes, losses,
                   li, ai, aj, call, first, before>>

\* lines 293-294: num_boxes = sum(len(t["hois"]) for t in targets), as a tensor
CountTargets ==
    /\ pc = "count"
    /\ num_boxes' = <<SumSeq([b \in 1..Len(targets) |-> Len(targets[b].hois)]), 1>>
    /\ pc' = IF env.dist THEN "all_reduce" ELSE "clamp"
    /\ UNCHANGED <<distVars, fnVars, self, env, outputs, aux_outputs, targets, indices, losses,
                   li, ai, aj, result, err, log, call, first, before>>

\* lines 295-296: torch.distributed.all_reduce(num_boxes), the sum over the group
AllReduce ==
    /\ pc = "all_reduce"
    /\ num_boxes' = <<num_boxes[1] + SumSeq(env.peers), 1>>
    /\ pc' = "clamp"
    /\ UNCHANGED <<distVars, fnVars, self, env, outputs, aux_outputs, targets, indices, losses,
                   li, ai, aj, result, err, log, call, first, before>>

\* line 297: num_boxes = torch.clamp(num_boxes / get_world_size(), min=1).item()
Clamp ==
    /\ pc = "clamp"
    /\ num_boxes' = ClampNormalizer(num_boxes[1], get_world_size(env.dist, env.peers))
    /\ pc' = "losses"
    /\ li' = 1
    /\ losses' = EmptyDict
    /\ UNCHANGED <<distVars, fnVars, self, env, outputs, aux_outputs, targets, indices,
                   ai, aj, result, err, log, call, first, before>>

\* lines 301-302: one iteration of "for loss in self.losses"
PrimaryLoss ==
    /\ pc = "losses"
    /\ li <= Len(self.losses)
    /\ LET r == get_loss(self.losses[li], outputs, targets, indices, num_boxes, cfg)
       IN  /\ log' = Append(log, LossEvent(Primary, self.losses[li], indices, num_boxes))
           /\ IF r.ok
              THEN /\ losses' = Update(losses, r.dict)
                   /\ li' = li + 1
                   /\ UNCHANGED <<pc, err, result>>
              ELSE /\ Fail(r.err)
                   /\ UNCHANGED <<losses, li>>
    /\ UNCHANGED <<distVars, fnVars, self, env, outputs, aux_outputs, targets, indices, num_boxes,
                   ai, aj, call, first, before>>

\* lines 304-305: if 'aux_outputs' in outputs: start the loop over the layers
EnterAux ==
    /\ pc = "losses"
    /\ li > Len(self.losses)
    /\ pc' = IF HasAux THEN "aux_match" ELSE "return"
    /\ ai' = 0
    /\ UNCHANGED <<distVars, fnVars, self, env, outputs, aux_outputs, targets, indices, num_boxes, losses,
                   li, aj, result, err, log, call, first, before>>

\* lines 306-307: aux_outputs.update({'logits_per_hoi': ...}), then the matcher
AuxMatch ==
    /\ pc = "aux_match"
    /\ IF "logits_per_hoi" \notin DOMAIN outputs
       THEN /\ Fail("KeyError")
            /\ UNCHANGED <<aux_outputs, indices, log, aj>>
       ELSE LET layer == InjectLogits(aux_outputs[ai + 1], outputs)
                assignment == AuxAssignment(aux_outputs[ai + 1], layer, targets, indices)
            IN  /\ aux_outputs' = [aux_outputs EXCEPT ![ai + 1] = layer]
                /\ IF MatcherRaises(layer)
                   THEN /\ Fail("KeyError")
                        /\ UNCHANGED <<indices, log, aj>>
                   ELSE /\ indices' = assignment
                        /\ log' = Append(log, MatcherEvent(ai, assignment))
                        /\ pc' = "aux_loss"
                        /\ aj' = 1
                        /\ UNCHANGED <<err, result>>
    /\ UNCHANGED <<distVars, fnVars, self, env, outputs, targets, num_boxes, losses,
                   li, ai, call, first, before>>

\* lines 308-311: one iteration of "for loss in ['boxes', 'confidences']"
AuxLoss ==
    /\ pc = "aux_loss"
    /\ LET r == get_loss(AuxLossNames[aj], aux_outputs[ai + 1], targets, indices, num_boxes, cfg)
       IN  /\ log' = Append(log, LossEvent(ai, AuxLossNames[aj], indices, num_boxes))
           /\ IF r.ok
              THEN /\ losses' = Update(losses, SuffixDict(r.dict, ai))
                   /\ IF aj < Len(AuxLossNames)
                      THEN /\ aj' = aj + 1
                           /\ UNCHANGED <<pc, ai>>
                      ELSE /\ aj' = 1
                           /\ IF ai + 1 < Len(aux_outputs)
                              THEN /\ ai' = ai + 1
                                   /\ pc' = "aux_match"
                              ELSE /\ pc' = "return"
                                   /\ UNCHANGED ai
                   /\ UNCHANGED <<err, result>>
              ELSE /\ Fail(r.err)
                   /\ UNCHANGED <<losses, ai, aj>>
    /\ UNCHANGED <<distVars, fnVars, self, env, outputs, aux_outputs, targets, indices, num_boxes,
                   li, call, first, before>>

\* line 313: return losses, indices
Return ==
    /\ pc = "return"
    /\ result' = [losses |-> losses, indices |-> indices]
    /\ pc' = "done"
    /\ UNCHANGED <<distVars, fnVars, self, env, outputs, aux_outputs, targets, indices, num_boxes, losses,
                   li, ai, aj, err, log, call, first, before>>

\* the caller invokes forward() once more with the same outputs and targets
CallAgain ==
    /\ pc \in {"done", "failed"}
    /\ call = 1
    /\ call' = 2
    /\ first' = [pc |-> pc, result |-> result, err |-> err]
    /\ pc' = "start"
    /\ indices' = <<>>
    /\ num_boxes' = <<0, 1>>
    /\ losses' = EmptyDict
    /\ li' = 1
    /\ ai' = 0
    /\ aj' = 1
    /\ result' = NoResult
    /\ err' = "none"
    /\ log' = <<>>
    /\ UNCHANGED <<distVars, fnVars, self, env, outputs, aux_outputs, targets, before>>

Next ==
    \/ MatchPrimary
    \/ CountTargets
    \/ AllReduce
    \/ Clamp
    \/ PrimaryLoss
    \/ EnterAux
    \/ AuxMatch
    \/ AuxLoss
    \/ Return
    \/ CallAgain

Spec == Init /\ [][Next]_vars

\* ===================================================== the training workers
\* Every worker of a training job runs forward() on its own batch; the only
\* point where they meet is the all_reduce of line 296.
MaxWorkers == MaxPeers + 1

mainVars == <<self, env, outputs, aux_outputs, targets, pc, indices, num_boxes, losses,
              li, ai, aj, result, err, log, call, first, before>>

Workers == 1..Len(wcount)

\* the batches of the workers other than w
OthersOf(w) == [i \in 1..(Len(wcount) - 1) |-> IF i < w THEN wcount[i] ELSE wcount[i + 1]]

\* variant: the collective is not waited for
ReduceCompleteAsync(arr, group) == TRUE

\* line 296: all_reduce is a blocking collective: a worker leaves it once
\* every worker of the group has entered it
ReduceComplete(arr, group) == arr = group

\* the sum of the tensors contributed so far
RECURSIVE SumOver(_, _)
SumOver(f, S) ==
    IF S = {} THEN 0
    ELSE LET x == CHOOSE y \in S : TRUE IN f[x] + SumOver(f, S \ {x})

InitDist ==
    /\ wdist \in BOOLEAN
    /\ wcount \in UNION {[1..n -> 0..(MaxPeerHois + 1)] : n \in 1..MaxWorkers}
    /\ wpc = [w \in 1..Len(wcount) |-> "count"]
    /\ wnum = [w \in 1..Len(wcount) |-> <<0, 1>>]
    /\ arrived = {}
    /\ wpassed = [w \in 1..Len(wcount) |-> <<>>]
    \* no single-process call is under way
    /\ self = [losses |-> <<>>, enable_focal_loss |-> FALSE, training |-> FALSE,
               consider_all |-> FALSE]
    /\ env = [dist |-> FALSE, peers |-> <<>>, empty_ce_raises |-> FALSE, strict_matcher |-> TRUE]
    /\ outputs = TopOutputs(TopKeys)
    /\ aux_outputs = <<>>
    /\ targets = <<>>
    /\ pc = "idle"
    /\ indices = <<>>
    /\ num_boxes = <<0, 1>>
    /\ losses = EmptyDict
    /\ li = 1
    /\ ai = 0
    /\ aj = 1
    /\ result = NoResult
    /\ err = "none"
    /\ log = <<>>
    /\ call = 1
    /\ first = [pc |-> "none", result |-> NoResult, err |-> "none"]
    /\ before = [outputs |-> outputs, aux_outputs |-> aux_outputs]
    /\ fpc = "idle"
    /\ idx = <<>>
    /\ target_classes_i = <<>>
    /\ target_classes_t = <<>>
    /\ loss_ce = <<>>
    /\ src_logits = <<>>
    /\ target_classes = <<>>
    /\ loss_t = <<>>
    /\ box_scores = <<>>
    /\ weight = <<>>
    /\ loss_conf = <<>>
    /\ pred_boxes = <<>>
    /\ src_boxes = <<>>
    /\ target_boxes = <<>>
    /\ box_terms = <<>>
    /\ box_losses = <<>>
    /\ regions = <<>>
    /\ pred_regions = <<>>
    /\ target_masks = <<>>
    /\ mask_losses = <<>>
    /\ focal_via = "none"
    /\ focal_xy = <<>>
    /\ reduction = "unset"
    /\ focal_elems = <<>>
    /\ focal_ret = <<>>

\* lines 293-295: the local count, then the test is_dist_avail_and_initialized()
WCount(w) ==
    /\ wpc[w] = "count"
    /\ wnum' = [wnum EXCEPT ![w] = <<wcount[w], 1>>]
    /\ wpc' = [wpc EXCEPT ![w] = IF wdist THEN "all_reduce" ELSE "clamp"]
    /\ UNCHANGED <<wdist, wcount, arrived, wpassed, mainVars, fnVars>>

\* line 296, entry: the worker contributes its tensor and blocks
WReduceEnter(w) ==
    /\ wpc[w] = "all_reduce"
    /\ arrived' = arrived \cup {w}
    /\ wpc' = [wpc EXCEPT ![w] = "in_reduce"]
    /\ UNCHANGED <<wdist, wcount, wnum, wpassed, mainVars, fnVars>>

\* line 296, return: the worker's tensor holds the sum
WReduceExit(w) ==
    /\ wpc[w] = "in_reduce"
    /\ ReduceComplete(arrived, Workers)
    /\ wnum' = [wnum EXCEPT ![w] = <<SumOver(wcount, arrived), 1>>]
    /\ wpc' = [wpc EXCEPT ![w] = "clamp"]
    /\ UNCHANGED <<wdist, wcount, arrived, wpassed, mainVars, fnVars>>

\* line 297
WClamp(w) ==
    /\ wpc[w] = "clamp"
    /\ wnum' = [wnum EXCEPT ![w] =
                   ClampNormalizer(wnum[w][1], get_world_size(wdist, OthersOf(w)))]
    /\ wpc' = [wpc EXCEPT ![w] = "losses"]
    /\ UNCHANGED <<wdist, wcount, arrived, wpassed, mainVars, fnVars>>

\* lines 301-302: the loss functions are invoked with num_boxes
WLoss(w) ==
    /\ wpc[w] = "losses"
    /\ wpassed' = [wpassed EXCEPT ![w] = Append(@, wnum[w])]
    /\ wpc' = [wpc EXCEPT ![w] = "done"]
    /\ UNCHANGED <<wdist, wcount, wnum, arrived, mainVars, fnVars>>

NextDist ==
    \/ \E w \in Workers : WCount(w)
    \/ \E w \in Workers : WReduceEnter(w)
    \/ \E w \in Workers : WReduceExit(w)
    \/ \E w \in Workers : WClamp(w)
    \/ \E w \in Workers : WLoss(w)

SpecDist == InitDist /\ [][NextDist]_vars

\* ================================================== loss_labels on its own
\* One call of loss_labels(outputs, targets, indices, num_boxes): the targets
\* carry any class ids, the Assignment is any one the matcher may return for
\* them (per image min(slots, len(hois)) pairs of distinct slots and distinct
\* interactions), and the call is followed through its lines 87, 88 and 89-105.
LabelTargetRecord(ids) ==
    [hois |-> [k \in 1..Len(ids) |-> [subject_id |-> 0, object_id |-> 1, hoi_id |-> ids[k]]]]

IdSeqs == UNION {[1..k -> 0..(NumClasses - 1)] : k \in 0..MaxTargets}

\* the sequences of n distinct elements of S
Injections(S, n) == {q \in DistinctSeqs(S, n) : Len(q) = n}

\* an image: its class ids and its pair of the Assignment, with nslots slots
ImageChoices(nslots) ==
    UNION {{[ids |-> ids, src |-> src, tgt |-> tgt] :
                src \in Injections(0..(nslots - 1), Min(nslots, Len(ids))),
                tgt \in Injections(0..(Len(ids) - 1), Min(nslots, Len(ids)))} :
           ids \in IdSeqs}

IdleForward ==
    /\ outputs = TopOutputs(TopKeys)
    /\ aux_outputs = <<>>
    /\ pc = "idle"
    /\ num_boxes = <<0, 1>>
    /\ losses = EmptyDict
    /\ li = 1
    /\ ai = 0
    /\ aj = 1
    /\ result = NoResult
    /\ err = "none"
    /\ log = <<>>
    /\ call = 1
    /\ first = [pc |-> "none", result |-> NoResult, err |-> "none"]
    /\ before = [outputs |-> outputs, aux_outputs |-> aux_outputs]
    /\ wdist = FALSE
    /\ wcount = <<>>
    /\ wpc = <<>>
    /\ wnum = <<>>
    /\ arrived = {}
    /\ wpassed = <<>>

InitLabels ==
    /\ \E nslots \in 1..MaxQueries, n \in 1..MaxBatch :
          \E batch \in [1..n -> ImageChoices(nslots)] :
             /\ targets = [b \in 1..n |-> LabelTargetRecord(batch[b].ids)]
             /\ indices = [b \in 1..n |-> <<batch[b].src, batch[b].tgt>>]
    /\ \E f \in BOOLEAN, t \in BOOLEAN, c \in BOOLEAN :
          self = [losses |-> <<"labels">>, enable_focal_loss |-> f, training |-> t,
                  consider_all |-> c]
    /\ env = [dist |-> FALSE, peers |-> <<>>, empty_ce_raises |-> FALSE, strict_matcher |-> TRUE]
    /\ IdleForward
    /\ fpc = "line87"
    /\ idx = <<>>
    /\ target_classes_i = <<>>
    /\ target_classes_t = <<>>
    /\ loss_ce = <<>>
    /\ src_logits = <<>>
    /\ target_classes = <<>>
    /\ loss_t = <<>>
    /\ box_scores = <<>>
    /\ weight = <<>>
    /\ loss_conf = <<>>
    /\ pred_boxes = <<>>
    /\ src_boxes = <<>>
    /\ target_boxes = <<>>
    /\ box_terms = <<>>
    /\ box_losses = <<>>
    /\ regions = <<>>
    /\ pred_regions = <<>>
    /\ target_masks = <<>>
    /\ mask_losses = <<>>
    /\ focal_via = "none"
    /\ focal_xy = <<>>
    /\ reduction = "unset"
    /\ focal_elems = <<>>
    /\ focal_ret = <<>>

\* line 87: target_classes_i, target_classes_t = self._get_tgt_labels(...)
ResolveLabels ==
    /\ fpc = "line87"
    /\ target_classes_i' = get_tgt_labels(targets, indices, cfg)[1]
    /\ target_classes_t' = get_tgt_labels(targets, indices, cfg)[2]
    /\ fpc' = "line88"
    /\ UNCHANGED <<idx, loss_ce, maskedVars, confVars, boxVars, regionVars, focalVars,
                   mainVars, distVars>>

\* line 88: idx = self._get_src_permutation_idx(indices)
PermutationIdx ==
    /\ fpc = "line88"
    /\ idx' = get_src_permutation_idx(indices)
    /\ fpc' = "line89"
    /\ UNCHANGED <<target_classes_i, target_classes_t, loss_ce, maskedVars, confVars, boxVars,
                   regionVars, focalVars,
                   mainVars, distVars>>

\* lines 89-105: the focal or the contrastive loss
LabelsLoss ==
    /\ fpc = "line89"
    /\ loss_ce' = labels_loss(idx, target_classes_i, target_classes_t, cfg)
    /\ fpc' = "returned"
    /\ UNCHANGED <<idx, target_classes_i, target_classes_t, maskedVars, confVars, boxVars,
                   regionVars, focalVars,
                   mainVars, distVars>>

NextLabels ==
    \/ ResolveLabels
    \/ PermutationIdx
    \/ LabelsLoss

SpecLabels == InitLabels /\ [][NextLabels]_vars

\* ===================================== masked_out_cross_entropy on its own
\* One call of masked_out_cross_entropy(src_logits, target_classes) on any
\* 0/1 matrix; entry <<r, c>> of the logits stands for any number.
InitMasked ==
    /\ \E nrows \in 1..MaxRows, ncols \in 1..MaxCols :
          /\ src_logits = [r \in 1..nrows |-> [c \in 1..ncols |-> <<r, c>>]]
          /\ target_classes \in [1..nrows -> [1..ncols -> {0, 1}]]
    /\ loss_t = <<>>
    /\ box_scores = <<>>
    /\ weight = <<>>
    /\ loss_conf = <<>>
    /\ pred_boxes = <<>>
    /\ src_boxes = <<>>
    /\ target_boxes = <<>>
    /\ box_terms = <<>>
    /\ box_losses = <<>>
    /\ regions = <<>>
    /\ pred_regions = <<>>
    /\ target_masks = <<>>
    /\ mask_losses = <<>>
    /\ focal_via = "none"
    /\ focal_xy = <<>>
    /\ reduction = "unset"
    /\ focal_elems = <<>>
    /\ focal_ret = <<>>
    /\ fpc = "line113"
    /\ idx = <<>>
    /\ target_classes_i = <<>>
    /\ target_classes_t = <<>>
    /\ loss_ce = <<>>
    /\ targets = <<>>
    /\ indices = <<>>
    /\ self = [losses |-> <<"labels">>, enable_focal_loss |-> FALSE, training |-> TRUE,
               consider_all |-> FALSE]
    /\ env = [dist |-> FALSE, peers |-> <<>>, empty_ce_raises |-> FALSE, strict_matcher |-> TRUE]
    /\ IdleForward

\* lines 113-134
MaskedCrossEntropy ==
    /\ fpc = "line113"
    /\ loss_t' = masked_out_cross_entropy(src_logits, target_classes)
    /\ fpc' = "returned"
    /\ UNCHANGED <<src_logits, target_classes, labelVarsButPc, confVars, boxVars,
                   regionVars, focalVars,
                   mainVars, distVars>>

NextMasked == MaskedCrossEntropy

SpecMasked == InitMasked /\ [][NextMasked]_vars

\* ============================================= loss_confidences on its own
\* One call of loss_confidences on a [batch, slots] tensor of scores: entry
\* <<b, s>> stands for the sigmoid of any score.
PairChoices(nslots) ==
    UNION {{[n |-> k, src |-> src, tgt |-> tgt] :
                src \in Injections(0..(nslots - 1), Min(nslots, k)),
                tgt \in Injections(0..(k - 1), Min(nslots, k))} :
           k \in 0..MaxTargets}

\* eos_coef, a float in (0, 1], as a fraction
EosChoices == {<<1, 10>>, <<1, 2>>, <<1, 1>>}

InitConf ==
    /\ \E nslots \in 1..MaxQueries, n \in 1..MaxBatch :
          \E batch \in [1..n -> PairChoices(nslots)] :
             /\ targets = [b \in 1..n |-> TargetRecord(batch[b].n)]
             /\ indices = [b \in 1..n |-> <<batch[b].src, batch[b].tgt>>]
             /\ box_scores = [b \in 1..n |-> [s \in 1..nslots |-> <<b - 1, s - 1>>]]
    /\ \E e \in EosChoices :
          self = [losses |-> <<"confidences">>, enable_focal_loss |-> FALSE, training |-> TRUE,
                  consider_all |-> FALSE, eos_coef |-> e]
    /\ env = [dist |-> FALSE, peers |-> <<>>, empty_ce_raises |-> FALSE, strict_matcher |-> TRUE]
    /\ IdleForward
    /\ fpc = "line141"
    /\ target_classes = <<>>
    /\ weight = <<>>
    /\ loss_conf = <<>>
    /\ pred_boxes = <<>>
    /\ src_boxes = <<>>
    /\ target_boxes = <<>>
    /\ box_terms = <<>>
    /\ box_losses = <<>>
    /\ regions = <<>>
    /\ pred_regions = <<>>
    /\ target_masks = <<>>
    /\ mask_losses = <<>>
    /\ focal_via = "none"
    /\ focal_xy = <<>>
    /\ reduction = "unset"
    /\ focal_elems = <<>>
    /\ focal_ret = <<>>
    /\ idx = <<>>
    /\ target_classes_i = <<>>
    /\ target_classes_t = <<>>
    /\ loss_ce = <<>>
    /\ src_logits = <<>>
    /\ loss_t = <<>>

\* lines 141-145
ConfidenceTargets ==
    /\ fpc = "line141"
    /\ target_classes' = confidence_targets(box_scores, indices)
    /\ fpc' = "line147"
    /\ UNCHANGED <<box_scores, weight, loss_conf, src_logits, loss_t, labelVarsButPc,
                   boxVars, regionVars, focalVars,
                   mainVars, distVars>>

\* lines 147-148
ConfidenceWeight ==
    /\ fpc = "line147"
    /\ weight' = confidence_weight(box_scores, indices, self.eos_coef)
    /\ fpc' = "line149"
    /\ UNCHANGED <<box_scores, target_classes, loss_conf, src_logits, loss_t, labelVarsButPc,
                   boxVars, regionVars, focalVars,
                   mainVars, distVars>>

\* lines 149-151
ConfidenceLoss ==
    /\ fpc = "line149"
    /\ loss_conf' = binary_cross_entropy(box_scores, target_classes, weight)
    /\ fpc' = "returned"
    /\ UNCHANGED <<box_scores, target_classes, weight, src_logits, loss_t, labelVarsButPc,
                   boxVars, regionVars, focalVars,
                   mainVars, distVars>>

NextConf ==
    \/ ConfidenceTargets
    \/ ConfidenceWeight
    \/ ConfidenceLoss

SpecConf == InitConf /\ [][NextConf]_vars

\* =================================================== loss_boxes on its own
\* One call of loss_boxes: every image has its boxes (a person and an object),
\* its interactions, the predicted box pairs of its slots and its pair of the
\* Assignment.  A batch has at most MaxTargets interactions in all, and one
\* slot per image when it has several images.
MaxCoord == 2

\* boxes of positive width and height, all on one line of the grid, their
\* right edge within MaxCoord + 1/2
BoxSet == {b \in {<<cx, 1, w, 1>> : cx \in 1..MaxCoord, w \in 1..MaxCoord} :
              2 * b[1] + b[3] <= 2 * MaxCoord + 1}
BoxPairs == BoxSet \X BoxSet
DefaultPair == <<<<1, 1, 1, 1>>, <<1, 1, 1, 1>>>>

\* the interactions name the person and the object in either order
HoiChoices == {[subject_id |-> 0, object_id |-> 1, hoi_id |-> 0],
               [subject_id |-> 1, object_id |-> 0, hoi_id |-> 0]}

\* an image with k interactions; what the call does not read is fixed: the
\* boxes of an unmatched slot, and the boxes of an image without interaction
BoxImageChoices(nslots, k) ==
    UNION {{[hois |-> hois, boxes |-> boxes, src |-> src, tgt |-> tgt, preds |-> preds] :
                hois \in [1..k -> HoiChoices],
                boxes \in {bx \in [1..2 -> BoxSet] : k = 0 => bx = DefaultPair},
                tgt \in Injections(0..(k - 1), Min(nslots, k)),
                preds \in {ps \in [1..nslots -> BoxPairs] :
                              \A q \in 1..nslots :
                                  (q - 1) \notin Range(src) => ps[q] = DefaultPair}} :
           src \in Injections(0..(nslots - 1), Min(nslots, k))}

RECURSIVE BoxBatchChoices(_, _)
BoxBatchChoices(nslots, ks) ==
    IF ks = <<>> THEN {<<>>}
    ELSE {<<h>> \o t : h \in BoxImageChoices(nslots, Head(ks)),
                       t \in BoxBatchChoices(nslots, Tail(ks))}

InitBoxes ==
    /\ \E n \in 1..MaxBatch :
          \E nslots \in 1..(IF n = 1 THEN 2 ELSE 1), ks \in [1..n -> 0..MaxTargets] :
             /\ SumSeq(ks) <= MaxTargets
             /\ \E batch \in BoxBatchChoices(nslots, ks) :
                   /\ targets = [b \in 1..n |-> [hois |-> batch[b].hois, boxes |-> batch[b].boxes]]
                   /\ indices = [b \in 1..n |-> <<batch[b].src, batch[b].tgt>>]
                   /\ pred_boxes = [b \in 1..n |-> batch[b].preds]
                   /\ num_boxes = ClampNormalizer(SumSeq(ks), 1)
    /\ self = [losses |-> <<"boxes">>, enable_focal_loss |-> FALSE, training |-> TRUE,
               consider_all |-> FALSE]
    /\ env = [dist |-> FALSE, peers |-> <<>>, empty_ce_raises |-> FALSE, strict_matcher |-> TRUE]
    /\ outputs = TopOutputs(TopKeys)
    /\ aux_outputs = <<>>
    /\ pc = "idle"
    /\ losses = EmptyDict
    /\ li = 1
    /\ ai = 0
    /\ aj = 1
    /\ result = NoResult
    /\ err = "none"
    /\ log = <<>>
    /\ call = 1
    /\ first = [pc |-> "none", result |-> NoResult, err |-> "none"]
    /\ before = [outputs |-> outputs, aux_outputs |-> aux_outputs]
    /\ wdist = FALSE
    /\ wcount = <<>>
    /\ wpc = <<>>
    /\ wnum = <<>>
    /\ arrived = {}
    /\ wpassed = <<>>
    /\ fpc = "line159"
    /\ src_boxes = <<>>
    /\ target_boxes = <<>>
    /\ box_terms = <<>>
    /\ box_losses = <<>>
    /\ regions = <<>>
    /\ pred_regions = <<>>
    /\ target_masks = <<>>
    /\ mask_losses = <<>>
    /\ focal_via = "none"
    /\ focal_xy = <<>>
    /\ reduction = "unset"
    /\ focal_elems = <<>>
    /\ focal_ret = <<>>
    /\ idx = <<>>
    /\ target_classes_i = <<>>
    /\ target_classes_t = <<>>
    /\ loss_ce = <<>>
    /\ src_logits = <<>>
    /\ target_classes = <<>>
    /\ loss_t = <<>>
    /\ box_scores = <<>>
    /\ weight = <<>>
    /\ loss_conf = <<>>

\* lines 159-167: the rows of both sides; torch.stack of no box raises
GatherBoxes ==
    /\ fpc = "line159"
    /\ src_boxes' = gather_src_boxes(pred_boxes, indices)
    /\ IF TargetRows(indices) = <<>>
       THEN /\ fpc' = "raised"
            /\ UNCHANGED target_boxes
       ELSE /\ fpc' = "line169"
            /\ target_boxes' = gather_target_boxes(targets, indices)
    /\ UNCHANGED <<pred_boxes, box_terms, box_losses, labelVarsButPc,
                   regionVars, focalVars, maskedVars, confVars,
                   mainVars, distVars>>

\* lines 169-170 and 175-180: the element-wise terms
BoxTerms ==
    /\ fpc = "line169"
    /\ box_terms' = [loss_pbbox |-> l1_loss(src_boxes, target_boxes, 1),
                     loss_obbox |-> l1_loss(src_boxes, target_boxes, 2),
                     loss_pgiou |-> giou_loss(src_boxes, target_boxes, 1),
                     loss_ogiou |-> giou_loss(src_boxes, target_boxes, 2)]
    /\ fpc' = "line173"
    /\ UNCHANGED <<pred_boxes, src_boxes, target_boxes, box_losses, labelVarsButPc,
                   regionVars, focalVars, maskedVars,
                   confVars, mainVars, distVars>>

\* lines 172-173 and 182-183: the sums over num_boxes
BoxLosses ==
    /\ fpc = "line173"
    /\ box_losses' =
          [k \in {"loss_bbox", "loss_giou"} |->
              IF k = "loss_bbox"
              THEN FAdd(SumOverNormalizer([i \in 1..Len(Flatten(box_terms.loss_pbbox)) |->
                                              <<Flatten(box_terms.loss_pbbox)[i], 1>>], num_boxes),
                        SumOverNormalizer([i \in 1..Len(Flatten(box_terms.loss_obbox)) |->
                                              <<Flatten(box_terms.loss_obbox)[i], 1>>], num_boxes))
              ELSE FAdd(SumOverNormalizer(box_terms.loss_pgiou, num_boxes),
                        SumOverNormalizer(box_terms.loss_ogiou, num_boxes))]
    /\ fpc' = "returned"
    /\ UNCHANGED <<pred_boxes, src_boxes, target_boxes, box_terms, labelVarsButPc,
                   regionVars, focalVars, maskedVars,
                   confVars, mainVars, distVars>>

NextBoxes ==
    \/ GatherBoxes
    \/ BoxTerms
    \/ BoxLosses

SpecBoxes == InitBoxes /\ [][NextBoxes]_vars

\* =================================================== loss_masks on its own
\* One call of loss_masks: every image has one map of region logits of each
\* kind, its boxes' masks (a person and an object), its interactions and its
\* pair of the Assignment.  A batch has at most MaxTargets interactions in
\* all, and one slot per image when it has several images.
PatchDim == 2

\* the mask of a box: a rectangle of the patch grid
MaskSet ==
    {[i \in 1..PatchDim |-> [j \in 1..PatchDim |->
         IF r[1] <= i /\ i <= r[2] /\ r[3] <= j /\ j <= r[4] THEN 1 ELSE 0]] :
     r \in {q \in (1..PatchDim) \X (1..PatchDim) \X (1..PatchDim) \X (1..PatchDim) :
               q[1] <= q[2] /\ q[3] <= q[4]}}
DefaultMasks == [q \in 1..2 |-> [i \in 1..PatchDim |-> [j \in 1..PatchDim |-> 1]]]

RegionLogits(name, n) ==
    [b \in 1..n |-> [i \in 1..PatchDim |-> [j \in 1..PatchDim |-> <<name, b - 1, i, j>>]]]

\* an image with k interactions; the masks of an image without interaction
\* are not read
MaskImageChoices(nslots, k) ==
    {[hois |-> hois, masks |-> masks, src |-> src, tgt |-> tgt] :
        hois \in [1..k -> HoiChoices],
        masks \in {ms \in [1..2 -> MaskSet] : k = 0 => ms = DefaultMasks},
        src \in Injections(0..(nslots - 1), Min(nslots, k)),
        tgt \in Injections(0..(k - 1), Min(nslots, k))}

RECURSIVE MaskBatchChoices(_, _)
MaskBatchChoices(nslots, ks) ==
    IF ks = <<>> THEN {<<>>}
    ELSE {<<h>> \o t : h \in MaskImageChoices(nslots, Head(ks)),
                       t \in MaskBatchChoices(nslots, Tail(ks))}

InitMasks ==
    /\ \E n \in 1..MaxBatch :
          \E nslots \in 1..(IF n = 1 THEN 2 ELSE 1), ks \in [1..n -> 0..MaxTargets] :
             /\ SumSeq(ks) <= MaxTargets
             /\ \E batch \in MaskBatchChoices(nslots, ks) :
                   /\ targets = [b \in 1..n |->
                                    [hois |-> batch[b].hois, mask_region_hw |-> batch[b].masks]]
                   /\ indices = [b \in 1..n |-> <<batch[b].src, batch[b].tgt>>]
                   /\ num_boxes = ClampNormalizer(SumSeq(ks), 1)
             /\ regions = [hum |-> RegionLogits("hum_region", n),
                           obj |-> RegionLogits("obj_region", n),
                           uni |-> RegionLogits("uni_region", n)]
    /\ self = [losses |-> <<"masks">>, enable_focal_loss |-> FALSE, training |-> TRUE,
               consider_all |-> FALSE]
    /\ env = [dist |-> FALSE, peers |-> <<>>, empty_ce_raises |-> FALSE, strict_matcher |-> TRUE]
    /\ outputs = TopOutputs(TopKeys)
    /\ aux_outputs = <<>>
    /\ pc = "idle"
    /\ losses = EmptyDict
    /\ li = 1
    /\ ai = 0
    /\ aj = 1
    /\ result = NoResult
    /\ err = "none"
    /\ log = <<>>
    /\ call = 1
    /\ first = [pc |-> "none", result |-> NoResult, err |-> "none"]
    /\ before = [outputs |-> outputs, aux_outputs |-> aux_outputs]
    /\ wdist = FALSE
    /\ wcount = <<>>
    /\ wpc = <<>>
    /\ wnum = <<>>
    /\ arrived = {}
    /\ wpassed = <<>>
    /\ fpc = "line190"
    /\ pred_regions = <<>>
    /\ target_masks = <<>>
    /\ mask_losses = <<>>
    /\ idx = <<>>
    /\ target_classes_i = <<>>
    /\ target_classes_t = <<>>
    /\ loss_ce = <<>>
    /\ src_logits = <<>>
    /\ target_classes = <<>>
    /\ loss_t = <<>>
    /\ box_scores = <<>>
    /\ weight = <<>>
    /\ loss_conf = <<>>
    /\ pred_boxes = <<>>
    /\ src_boxes = <<>>
    /\ target_boxes = <<>>
    /\ box_terms = <<>>
    /\ box_losses = <<>>
    /\ focal_via = "none"
    /\ focal_xy = <<>>
    /\ reduction = "unset"
    /\ focal_elems = <<>>
    /\ focal_ret = <<>>

\* lines 190-195: the region logits of the matched rows
GatherRegions ==
    /\ fpc = "line190"
    /\ pred_regions' = [hum |-> gather_regions(regions.hum, indices),
                        obj |-> gather_regions(regions.obj, indices),
                        uni |-> gather_regions(regions.uni, indices)]
    /\ fpc' = "line198"
    /\ UNCHANGED <<regions, target_masks, mask_losses, labelVarsButPc, maskedVars, confVars,
                   boxVars, focalVars, mainVars, distVars>>

\* lines 198-213: the target masks; torch.stack of no mask raises
GatherMasks ==
    /\ fpc = "line198"
    /\ IF TargetRows(indices) = <<>>
       THEN /\ fpc' = "raised"
            /\ UNCHANGED target_masks
       ELSE /\ fpc' = "line216"
            /\ target_masks' =
                  [hum |-> gather_target_masks(targets, indices, "subject_id"),
                   obj |-> gather_target_masks(targets, indices, "object_id"),
                   uni |-> elementwise_max(gather_target_masks(targets, indices, "subject_id"),
                                           gather_target_masks(targets, indices, "object_id"))]
    /\ UNCHANGED <<regions, pred_regions, mask_losses, labelVarsButPc, maskedVars, confVars,
                   boxVars, focalVars, mainVars, distVars>>

\* lines 216-228: the three mean binary cross-entropies
MaskLosses ==
    /\ fpc = "line216"
    /\ mask_losses' =
          [k \in {"loss_hum_mask", "loss_obj_mask", "loss_uni_mask"} |->
              IF k = "loss_hum_mask" THEN bce_with_logits_mean(pred_regions.hum, target_masks.hum)
              ELSE IF k = "loss_obj_mask"
              THEN bce_with_logits_mean(pred_regions.obj, target_masks.obj)
              ELSE bce_with_logits_mean(pred_regions.uni, target_masks.uni)]
    /\ fpc' = "returned"
    /\ UNCHANGED <<regions, pred_regions, target_masks, labelVarsButPc, maskedVars, confVars,
                   boxVars, focalVars, mainVars, distVars>>

NextMasks ==
    \/ GatherRegions
    \/ GatherMasks
    \/ MaskLosses

SpecMasks == InitMasks /\ [][NextMasks]_vars

\* ============================ binary_focal_loss_with_logits on its own
\* One call of the focal-loss helper, either from loss_labels in focal mode
\* (lines 90-95, after lines 87 and 88) or directly with any reduction word
\* and any binary labels for a small matrix of logits.
ReductionChoices == {"mean", "sum", "none", "max", "Sum", ""}

FocalShapes == {<<1, 1>>, <<1, 2>>, <<2, 1>>, <<2, 2>>}
DirectLogits(shape) == [r \in 1..shape[1] |-> [c \in 1..shape[2] |-> <<0, r - 1, c - 1>>]]
DirectLabels(shape) == [1..shape[1] -> [1..shape[2] -> {0, 1}]]

FocalCommon ==
    /\ env = [dist |-> FALSE, peers |-> <<>>, empty_ce_raises |-> FALSE, strict_matcher |-> TRUE]
    /\ outputs = TopOutputs(TopKeys)
    /\ aux_outputs = <<>>
    /\ pc = "idle"
    /\ losses = EmptyDict
    /\ li = 1
    /\ ai = 0
    /\ aj = 1
    /\ result = NoResult
    /\ err = "none"
    /\ log = <<>>
    /\ call = 1
    /\ first = [pc |-> "none", result |-> NoResult, err |-> "none"]
    /\ before = [outputs |-> outputs, aux_outputs |-> aux_outputs]
    /\ wdist = FALSE
    /\ wcount = <<>>
    /\ wpc = <<>>
    /\ wnum = <<>>
    /\ arrived = {}
    /\ wpassed = <<>>
    /\ loss_ce = <<>>
    /\ src_logits = <<>>
    /\ target_classes = <<>>
    /\ loss_t = <<>>
    /\ box_scores = <<>>
    /\ weight = <<>>
    /\ loss_conf = <<>>
    /\ pred_boxes = <<>>
    /\ src_boxes = <<>>
    /\ target_boxes = <<>>
    /\ box_terms = <<>>
    /\ box_losses = <<>>
    /\ regions = <<>>
    /\ pred_regions = <<>>
    /\ target_masks = <<>>
    /\ mask_losses = <<>>
    /\ focal_elems = <<>>
    /\ focal_ret = <<>>

\* loss_labels at line 90, focal mode
InitFocalLabels ==
    /\ \E n \in 1..MaxBatch :
          \E nslots \in 1..(IF n = 1 THEN 2 ELSE 1) :
             \E batch \in {q \in [1..n -> ImageChoices(nslots)] :
                              SumSeq([b \in 1..n |-> Len(q[b].ids)]) <= MaxTargets} :
                /\ targets = [b \in 1..n |-> LabelTargetRecord(batch[b].ids)]
                /\ indices = [b \in 1..n |-> <<batch[b].src, batch[b].tgt>>]
                /\ num_boxes = ClampNormalizer(SumSeq([b \in 1..n |-> Len(batch[b].ids)]), 1)
    /\ \E t \in BOOLEAN, c \in BOOLEAN :
          self = [losses |-> <<"labels">>, enable_focal_loss |-> TRUE, training |-> t,
                  consider_all |-> c]
    /\ target_classes_i = get_tgt_labels(targets, indices, cfg)[1]
    /\ target_classes_t = get_tgt_labels(targets, indices, cfg)[2]
    /\ idx = get_src_permutation_idx(indices)
    /\ focal_via = "loss_labels"
    /\ focal_xy = <<>>
    /\ reduction = "unset"
    /\ fpc = "line90"

\* the helper called with arguments of the caller's choice
InitFocalDirect ==
    /\ \E shape \in FocalShapes : \E y \in DirectLabels(shape) :
          focal_xy = [x |-> DirectLogits(shape), y |-> y]
    /\ reduction \in ReductionChoices
    /\ focal_via = "direct"
    /\ fpc = "line68"
    /\ targets = <<>>
    /\ indices = <<>>
    /\ num_boxes = <<1, 1>>
    /\ self = [losses |-> <<"labels">>, enable_focal_loss |-> TRUE, training |-> FALSE,
               consider_all |-> FALSE]
    /\ target_classes_i = <<>>
    /\ target_classes_t = <<>>
    /\ idx = <<>>

InitFocal == FocalCommon /\ (InitFocalLabels \/ InitFocalDirect)

\* lines 90-93: the one-hot labels and the call with reduction='sum'; an
\* empty target_classes_i is a float tensor and cannot index labels
FocalCall ==
    /\ fpc = "line90"
    /\ IF Len(idx[1]) = 0
       THEN /\ loss_ce' = Raised("IndexError")
            /\ fpc' = "raised"
            /\ UNCHANGED <<focal_xy, reduction>>
       ELSE /\ focal_xy' = [x |-> GatherLogits(idx),
                            y |-> focal_labels(GatherLogits(idx), target_classes_i)]
            /\ reduction' = FocalReduction
            /\ fpc' = "line68"
            /\ UNCHANGED loss_ce
    /\ UNCHANGED <<idx, target_classes_i, target_classes_t, focal_via, focal_elems, focal_ret,
                   maskedVars, confVars, boxVars, regionVars, mainVars, distVars>>

\* lines 68-71: the element-wise loss
FocalElements ==
    /\ fpc = "line68"
    /\ focal_elems' = focal_elementwise(focal_xy.x, focal_xy.y)
    /\ fpc' = "line72"
    /\ UNCHANGED <<idx, target_classes_i, target_classes_t, loss_ce, focal_via, focal_xy,
                   reduction, focal_ret, maskedVars, confVars, boxVars, regionVars, mainVars,
                   distVars>>

\* lines 72-79: the reduction, or the ValueError
FocalReduce ==
    /\ fpc = "line72"
    /\ focal_ret' = focal_reduce(focal_elems, reduction)
    /\ fpc' = IF ~focal_reduce(focal_elems, reduction).ok THEN "raised"
              ELSE IF focal_via = "loss_labels" THEN "line94" ELSE "returned"
    /\ UNCHANGED <<idx, target_classes_i, target_classes_t, loss_ce, focal_via, focal_xy,
                   reduction, focal_elems, maskedVars, confVars, boxVars, regionVars, mainVars,
                   distVars>>

\* lines 94-95: focal_loss / len(labels)
FocalDivide ==
    /\ fpc = "line94"
    /\ loss_ce' = Value(Scale(focal_ret.value, <<1, Len(focal_xy.y)>>))
    /\ fpc' = "returned"
    /\ UNCHANGED <<idx, target_classes_i, target_classes_t, focalVars, maskedVars, confVars,
                   boxVars, regionVars, mainVars, distVars>>

NextFocal ==
    \/ FocalCall
    \/ FocalElements
    \/ FocalReduce
    \/ FocalDivide

SpecFocal == InitFocal /\ [][NextFocal]_vars

\* ================================================================ properties
\* the dict forward() hands to the loss functions of a layer
LayerOutputs(layer) == IF layer = Primary THEN outputs ELSE aux_outputs[layer + 1]

LocalTotal == SumSeq([b \in 1..Len(targets) |-> Len(targets[b].hois)])
AllImagesEmpty == \A b \in 1..Len(targets) : targets[b].hois = <<>>
AllKeysPresent ==
    /\ TopKeys \subseteq DOMAIN outputs
    /\ \A i \in 1..Len(aux_outputs) : AuxKeys \subseteq DOMAIN aux_outputs[i]
LossEvents == {j \in 1..Len(log) : log[j].ev = "loss"}
MatcherEvents == {j \in 1..Len(log) : log[j].ev = "matcher"}
AuxKeyName(k, i) == k \o "_" \o ToString(i)

\* the keys each loss name contributes, and the output keys it requires
KeysOf(name) ==
    IF name = "labels" THEN {"loss_ce", "class_error"}
    ELSE IF name = "boxes" THEN {"loss_bbox", "loss_giou"}
    ELSE IF name = "confidences" THEN {"loss_conf"}
    ELSE IF name = "masks" THEN {"loss_hum_mask", "loss_obj_mask", "loss_uni_mask"}
    ELSE {}
Required(name) ==
    IF name = "labels" THEN {"logits_per_hoi"}
    ELSE IF name = "boxes" THEN {"pred_boxes"}
    ELSE IF name = "confidences" THEN {"box_scores"}
    ELSE IF name = "masks" THEN RegionKeys
    ELSE {}

\* C1 (as claimed): the Assignment forward() returns is the one the matcher
\* produced for the top-level outputs, whatever the number of auxiliary layers.
C1_ReturnsPrimaryAssignment ==
    pc = "done" => result.indices = matcher(outputs, targets)

C3_DegenerateBatchFinite ==
    ( /\ pc \in {"done", "failed"}
      /\ AllImagesEmpty
      /\ AllKeysPresent
      /\ Range(self.losses) \subseteq LossNames )
    => /\ pc = "done"
       /\ \A k \in DOMAIN result.losses : IsFinite(result.losses[k])

\* C4: the normalizer handed to every loss function is max(1, S / W), S the
\* number of interactions summed over the workers and W the world size (the
\* local number and 1 without a process group); it is 1 when S = 0.
GlobalTotal == LocalTotal + (IF env.dist THEN SumSeq(env.peers) ELSE 0)
WorldSize == IF env.dist THEN 1 + Len(env.peers) ELSE 1
IsMaxOfOneAnd(f, s, w) ==
    /\ f[2] > 0
    /\ IF s >= w THEN f[1] * w = s * f[2] ELSE f[1] = f[2]
C4_Normalizer ==
    \A j \in LossEvents :
        /\ IsMaxOfOneAnd(log[j].nb, GlobalTotal, WorldSize)
        /\ GlobalTotal = 0 => log[j].nb = <<1, 1>>

C4_Witness ==
    /\ LossEvents # {}
    /\ env.dist
    /\ WorldSize = 2
    /\ GlobalTotal = 1

\* C5: with n auxiliary layers the returned Loss Map has, for every layer
\* i < n, the keys loss_bbox_i, loss_giou_i and loss_conf_i besides the
\* unsuffixed keys of the enabled losses, and no suffixed classification or
\* mask key.
C5_AuxKeys ==
    pc = "done" =>
        /\ DOMAIN result.losses =
              UNION {KeysOf(self.losses[i]) : i \in 1..Len(self.losses)}
              \cup {AuxKeyName(k, i) : k \in {"loss_bbox", "loss_giou", "loss_conf"},
                                       i \in 0..(Len(aux_outputs) - 1)}
        /\ \A i \in 0..(Len(aux_outputs) - 1) :
              \A k \in {"loss_ce", "class_error", "loss_hum_mask", "loss_obj_mask", "loss_uni_mask"} :
                  AuxKeyName(k, i) \notin DOMAIN result.losses

C5_Witness ==
    /\ pc = "done"
    /\ Len(aux_outputs) = 2
    /\ "labels" \in Range(self.losses)
    /\ {"loss_ce", "loss_bbox_0", "loss_conf_1"} \subseteq DOMAIN result.losses

\* C6: in one forward() the matcher is invoked first on the top-level outputs,
\* then once per auxiliary layer in layer order, 1 + n times in all; every
\* loss function runs after the matcher call of its own layer and is given
\* the Assignment of that call, the one matching its layer's outputs.
LastMatcherBefore(j) == CHOOSE m \in MatcherEvents : m < j /\ \A q \in MatcherEvents : q < j => q <= m
C6_MatcherPerLayer ==
    /\ log # <<>> => log[1].ev = "matcher" /\ log[1].layer = Primary
    /\ \A j \in MatcherEvents :
          /\ log[j].layer = Cardinality({q \in MatcherEvents : q < j}) - 1
          /\ log[j].ind = matcher(LayerOutputs(log[j].layer), targets)
    /\ \A j \in LossEvents :
          /\ \E m \in MatcherEvents : m < j
          /\ log[LastMatcherBefore(j)].layer = log[j].layer
          /\ log[LastMatcherBefore(j)].ind = log[j].ind
          /\ log[j].ind = matcher(LayerOutputs(log[j].layer), targets)
    /\ pc = "done" =>
          /\ Cardinality(MatcherEvents) = 1 + Len(aux_outputs)
          /\ \A j \in MatcherEvents : log[j].layer # Primary =>
                /\ j + 2 <= Len(log)
                /\ log[j + 1].ev = "loss" /\ log[j + 1].name = "boxes"
                /\ log[j + 2].ev = "loss" /\ log[j + 2].name = "confidences"

C6_Witness ==
    /\ pc = "done"
    /\ Len(aux_outputs) = 2
    /\ Cardinality(MatcherEvents) = 3
    /\ self.losses # <<>>
    /\ matcher(aux_outputs[1], targets) # matcher(outputs, targets)
    /\ matcher(aux_outputs[2], targets) # matcher(aux_outputs[1], targets)

\* C7: a configured loss name outside the four known ones makes forward()
\* fail when it is dispatched: nothing is returned, also when losses before
\* it had been computed, and forward() never completes with such a name.
C7_UnknownLossFails ==
    /\ \A j \in LossEvents : log[j].name \notin LossNames =>
          /\ j = Len(log)
          /\ pc = "failed"
          /\ err = "AssertionError"
          /\ result = NoResult
    /\ pc = "done" => Range(self.losses) \subseteq LossNames

C7_Witness ==
    /\ pc = "failed"
    /\ log # <<>>
    /\ log[Len(log)].ev = "loss"
    /\ log[Len(log)].name = UnknownLoss
    /\ losses # EmptyDict

\* C8: a loss function called on a dict that lacks a key it requires fails at
\* once with an assertion error, contributes nothing to the Loss Map, and the
\* failure ends forward() without a result, also for an auxiliary layer.
C8_MissingKeyFails ==
    \A j \in LossEvents :
        (log[j].name \in LossNames
         /\ ~(Required(log[j].name) \subseteq DOMAIN LayerOutputs(log[j].layer)))
        => /\ j = Len(log)
           /\ pc = "failed"
           /\ err = "AssertionError"
           /\ result = NoResult
           /\ \A k \in KeysOf(log[j].name) :
                 IF log[j].layer = Primary THEN k \notin DOMAIN losses
                 ELSE AuxKeyName(k, log[j].layer) \notin DOMAIN losses

C8_Witness ==
    /\ pc = "failed"
    /\ log # <<>>
    /\ log[Len(log)].ev = "loss"
    /\ log[Len(log)].name = "boxes"
    /\ log[Len(log)].layer = 1
    /\ "pred_boxes" \notin DOMAIN aux_outputs[2]

\* C9: on every worker the sum-reduction over the group is complete (every
\* worker has contributed) before the worker invokes a loss function, and the
\* normalizer it uses is built from the global sum; without a process group no
\* reduction takes place and the world size used is 1.
C9_ReduceBeforeLosses ==
    /\ ~wdist => arrived = {}
    /\ \A w \in Workers :
          (wpc[w] \in {"losses", "done"}) =>
              IF wdist
              THEN /\ arrived = Workers
                   /\ IsMaxOfOneAnd(wnum[w], SumSeq(wcount), Len(wcount))
              ELSE IsMaxOfOneAnd(wnum[w], wcount[w], 1)
    /\ \A w \in Workers : \A j \in 1..Len(wpassed[w]) :
          IsMaxOfOneAnd(wpassed[w][j], IF wdist THEN SumSeq(wcount) ELSE wcount[w],
                        IF wdist THEN Len(wcount) ELSE 1)

C9_Witness ==
    /\ wdist
    /\ Len(wcount) >= 2
    /\ \E w \in Workers : wpc[w] = "done" /\ wpassed[w] # <<>>
    /\ \E v \in Workers : wpc[v] = "in_reduce"

\* C10: a second forward() on the same outputs and targets objects ends as the
\* first one did: the same Loss Map and the same Assignment (or the same
\* exception), also with auxiliary layers.
C10_SameTwice ==
    (call = 2 /\ pc \in {"done", "failed"}) =>
        /\ pc = first.pc
        /\ result = first.result
        /\ err = first.err

C10_Witness ==
    /\ call = 2
    /\ pc = "done"
    /\ Len(aux_outputs) >= 1
    /\ LocalTotal >= 1
    /\ result.losses # EmptyDict
    /\ result = first.result

\* C11: the key sets of different loss names are pairwise disjoint; without
\* auxiliary outputs the keys of the returned Loss Map are exactly the union of
\* the key sets of the enabled names; and a merge adds the keys of its loss
\* name (suffixed for an auxiliary layer) without overwriting any entry that
\* an earlier loss name or an earlier layer wrote.
WrittenBy(e) ==
    IF e.layer = Primary THEN KeysOf(e.name)
    ELSE {AuxKeyName(k, e.layer) : k \in KeysOf(e.name)}
\* the last logged loss function raised (a KeyError comes from the lines
\* 306-307, after the last logged call had returned)
FailedIn(j) == j = Len(log) /\ pc = "failed" /\ err # "KeyError"
Completed == {j \in LossEvents : ~FailedIn(j)}
Produced(e) == get_loss(e.name, LayerOutputs(e.layer), targets, e.ind, e.nb, cfg)
C11_KeysDisjoint ==
    /\ \A j \in Completed :
          /\ Produced(log[j]).ok
          /\ DOMAIN Produced(log[j]).dict = KeysOf(log[j].name)
          /\ \A k \in KeysOf(log[j].name) :
                LET key == IF log[j].layer = Primary THEN k ELSE AuxKeyName(k, log[j].layer)
                IN  /\ key \in DOMAIN losses
                    /\ losses[key] = Produced(log[j]).dict[k]
    /\ \A i, j \in Completed : i # j => WrittenBy(log[i]) \cap WrittenBy(log[j]) = {}
    /\ DOMAIN losses = UNION {WrittenBy(log[j]) : j \in Completed}
    /\ (pc = "done" /\ ~HasAux) =>
          DOMAIN result.losses = UNION {KeysOf(self.losses[i]) : i \in 1..Len(self.losses)}

C11_Witness ==
    /\ pc = "done"
    /\ Len(aux_outputs) = 2
    /\ Len(self.losses) = 2
    /\ Cardinality(DOMAIN result.losses) >= 9

\* C12 (as claimed): on a batch where some image has an empty pair and some
\* image has a match, every loss function that is given its keys completes,
\* and the rows it gathers and the target rows it pairs them with are as many
\* as the pair lengths summed over the images.
MixedBatch(ind) ==
    /\ \E b \in 1..Len(ind) : ind[b][1] = <<>>
    /\ \E b \in 1..Len(ind) : ind[b][1] # <<>>
PairTotal(ind) == SumSeq([b \in 1..Len(ind) |-> Len(ind[b][1])])
C12_MixedBatchCompletes ==
    \A j \in LossEvents :
        ( /\ log[j].name \in LossNames
          /\ Required(log[j].name) \subseteq DOMAIN LayerOutputs(log[j].layer)
          /\ MixedBatch(log[j].ind) )
        => /\ ~FailedIn(j)
           /\ \A k \in KeysOf(log[j].name) :
                 LET key == IF log[j].layer = Primary THEN k ELSE AuxKeyName(k, log[j].layer)
                 IN  /\ key \in DOMAIN losses
                     /\ Len(losses[key].pred) = PairTotal(log[j].ind)
                     /\ log[j].name # "confidences" =>
                           Len(losses[key].tgt) = PairTotal(log[j].ind)

\* C20 (as claimed): in contrastive mode loss_labels completes on a batch with
\* a match in each of the four combinations of training / inference and
\* consider_all on / off: the text->image term never meets an absent
\* target_classes_t.
C20_ContrastiveLabelsComplete ==
    \A j \in LossEvents :
        ( /\ log[j].name = "labels"
          /\ ~self.enable_focal_loss
          /\ "logits_per_hoi" \in DOMAIN LayerOutputs(log[j].layer)
          /\ PairTotal(log[j].ind) >= 1 )
        => ~FailedIn(j)

\* C13: the Permutation Indexer returns batch_index and slot_index of the
\* same length, the sum of the per-image numbers of matched slots; entry k is
\* the (image, slot) of the k-th matched slot in the concatenation of the
\* per-image slot sequences in image order; and indexing the logits with the
\* pair gives the rows of exactly these (image, slot) pairs in that order.
PairsBefore(ind, b) == SumSeq([q \in 1..(b - 1) |-> Len(ind[q][1])])
C13_PermutationIndexer ==
    fpc \in {"line89", "returned"} =>
        /\ Len(idx[1]) = PairTotal(indices)
        /\ Len(idx[2]) = PairTotal(indices)
        /\ Len(GatherLogits(idx)) = PairTotal(indices)
        /\ \A b \in 1..Len(indices) : \A p \in 1..Len(indices[b][1]) :
              /\ idx[1][PairsBefore(indices, b) + p] = b - 1
              /\ idx[2][PairsBefore(indices, b) + p] = indices[b][1][p]
              /\ \A c \in 1..NumClasses :
                    GatherLogits(idx)[PairsBefore(indices, b) + p][c]
                        = <<b - 1, indices[b][1][p], c - 1>>

C13_Witness ==
    /\ fpc = "line89"
    /\ Len(indices) = 2
    /\ indices[1][1] = <<2, 0>>
    /\ indices[2][1] = <<1>>
    /\ idx = << <<0, 0, 1>>, <<2, 0, 1>> >>

\* C14: in class-compression mode target_classes_t has one row per matched
\* prediction and one column per distinct global hoi_id of the batch's
\* targets (the columns in order of first appearance), and the rows with a 1
\* in the column of a class are as many as the matched targets of that class;
\* for two images sharing one hoi_id and adding one unique id each, all
\* matched, it has 3 columns and two rows with a 1 in the shared column.
\* the targets in enumeration order, as <<image, interaction>> (1-based)
Enumerated == {bk \in (1..Len(targets)) \X (1..MaxTargets + 1) : bk[2] <= Len(targets[bk[1]].hois)}
Earlier(x, y) == x[1] < y[1] \/ (x[1] = y[1] /\ x[2] < y[2])
IdAt(bk) == targets[bk[1]].hois[bk[2]].hoi_id
BatchIds == {IdAt(bk) : bk \in Enumerated}
FirstOf(g) == CHOOSE bk \in Enumerated : IdAt(bk) = g /\ \A o \in Enumerated : IdAt(o) = g => ~Earlier(o, bk)
ColumnOf(g) == 1 + Cardinality({h \in BatchIds : Earlier(FirstOf(h), FirstOf(g))})
MatchedOfClass(g) ==
    {bp \in (1..Len(indices)) \X (1..MaxQueries + 1) :
        /\ bp[2] <= Len(indices[bp[1]][2])
        /\ targets[bp[1]].hois[indices[bp[1]][2][bp[2]] + 1].hoi_id = g}
RowsWithOne(col) ==
    {r \in 1..target_classes_t.shape[1] : target_classes_t.at[r][col] = 1}
SharedIds == {g \in BatchIds : \A b \in 1..Len(targets) :
                 \E k \in 1..Len(targets[b].hois) : targets[b].hois[k].hoi_id = g}
ScenarioB ==
    /\ Len(targets) = 2
    /\ \A b \in 1..2 : Len(targets[b].hois) = 2 /\ Len(indices[b][1]) = 2
    /\ Cardinality(SharedIds) = 1
    /\ Cardinality(BatchIds) = 3
C14_CompressedIndicator ==
    (fpc # "line87" /\ self.training /\ ~self.consider_all) =>
        /\ target_classes_t.shape = <<PairTotal(indices), Cardinality(BatchIds)>>
        /\ Len(target_classes_t.at) = PairTotal(indices)
        /\ \A r \in 1..Len(target_classes_t.at) :
              /\ Len(target_classes_t.at[r]) = Cardinality(BatchIds)
              /\ \A c \in 1..Cardinality(BatchIds) : target_classes_t.at[r][c] \in {0, 1}
        /\ \A g \in BatchIds :
              Cardinality(RowsWithOne(ColumnOf(g))) = Cardinality(MatchedOfClass(g))
        /\ ScenarioB =>
              /\ target_classes_t.shape[2] = 3
              /\ \A g \in SharedIds : Cardinality(RowsWithOne(ColumnOf(g))) = 2

C14_Witness ==
    /\ fpc = "returned"
    /\ self.training /\ ~self.consider_all
    /\ ScenarioB
    /\ target_classes_t.shape = <<4, 3>>

\* C16 (as claimed): in contrastive mode the value of loss_ce for m matched
\* predictions is the average of m single-example cross-entropy terms, one per
\* matched prediction: its logits row against its resolved class.
SingleExampleTerm(b, s, class) ==
    [fn |-> "ce", over |-> {<<b, s, c>> : c \in 0..(NumClasses - 1)}, at |-> <<b, s, class>>, y |-> 1]
AverageOfTerms ==
    [r \in 1..PairTotal(indices) |->
        Weighted(SingleExampleTerm(idx[1][r], idx[2][r], target_classes_i[r]),
                 <<1, PairTotal(indices)>>)]
ContrastiveReturned ==
    /\ fpc = "returned"
    /\ ~self.enable_focal_loss
    /\ loss_ce.ok
    /\ ~loss_ce.nan
C16_AverageOfTerms ==
    ContrastiveReturned => SameValue(loss_ce.value, AverageOfTerms)

\* C16 (amended): outside training the value of loss_ce is that average; in
\* training with class compression it is half the sum of that average and the
\* text->image term, the masked multi-label cross-entropy of the transposed
\* matched logits (their first C columns) against the transposed indicator
\* matrix.  For 1 image, 3 slots, 2 interactions and Assignment
\* [([0,2],[0,1])] the average is the one of the two terms of slots 0 and 2.
TextToImage ==
    masked_out_cross_entropy(
        [c \in 1..target_classes_t.shape[2] |->
            [r \in 1..PairTotal(indices) |-> <<idx[1][r], idx[2][r], c - 1>>]],
        [c \in 1..target_classes_t.shape[2] |->
            [r \in 1..PairTotal(indices) |-> target_classes_t.at[r][c]]])
ScenarioA ==
    /\ Len(targets) = 1
    /\ Len(targets[1].hois) = 2
    /\ indices = << << <<0, 2>>, <<0, 1>> >> >>
C16_AverageOutsideTraining ==
    ContrastiveReturned =>
        /\ ~self.training => SameValue(loss_ce.value, AverageOfTerms)
        /\ self.training =>
              SameValue(loss_ce.value, Scale(AverageOfTerms \o TextToImage, <<1, 2>>))
        /\ ScenarioA =>
              SameValue(AverageOfTerms,
                  << Weighted(SingleExampleTerm(0, 0, target_classes_i[1]), <<1, 2>>),
                     Weighted(SingleExampleTerm(0, 2, target_classes_i[2]), <<1, 2>>) >>)

C16_Witness ==
    /\ ContrastiveReturned
    /\ self.training
    /\ ScenarioA
    /\ target_classes_i = <<0, 1>>

\* C19 (as claimed): for the indicator matrix the Label Resolver produced,
\* every row of its transpose that the single-positive branch of the masked
\* cross-entropy handles has exactly one positive column, which is its
\* target; every other row has two or more positives and is handled by the
\* multi-positive branch; no row is handled by both.
TransposedIndicator ==
    [c \in 1..target_classes_t.shape[2] |->
        [r \in 1..target_classes_t.shape[1] |-> target_classes_t.at[r][c]]]
C19_PartitionExact ==
    (ContrastiveReturned /\ self.training) =>
        LET tc == TransposedIndicator
            one == OnePosRows(tc)
            multi == MultiPosRows(tc)
        IN  /\ \A k \in 1..Len(one) :
                  /\ SumSeq(tc[one[k]]) = 1
                  /\ tc[one[k]][targets_one_pos(tc)[k] + 1] = 1
            /\ \A i \in 1..Len(tc) :
                  i \notin Range(one) => SumSeq(tc[i]) >= 2 /\ i \in Range(multi)
            /\ Range(one) \cap Range(multi) = {}

\* C15: on an indicator matrix in which every row has exactly one positive
\* column, masked multi-label cross-entropy returns the plain mean-reduced
\* cross-entropy of the same rows against the index of their positive column.
OnePositiveEach ==
    \A r \in 1..Len(target_classes) : SumSeq(target_classes[r]) = 1
PositiveOf(r) == CHOOSE c \in 1..Len(target_classes[r]) : target_classes[r][c] = 1
PlainCrossEntropy ==
    [r \in 1..Len(src_logits) |->
        Weighted([fn |-> "ce", over |-> Range(src_logits[r]),
                  at |-> src_logits[r][PositiveOf(r)], y |-> 1],
                 <<1, Len(src_logits)>>)]
C15_SinglePositiveIsPlain ==
    (fpc = "returned" /\ target_classes # <<>> /\ OnePositiveEach) =>
        SameValue(loss_t, PlainCrossEntropy)

C15_Witness ==
    /\ fpc = "returned"
    /\ Len(target_classes) = 3
    /\ OnePositiveEach
    /\ target_classes[1] = <<0, 1, 0>>
    /\ target_classes[2] = <<0, 1, 0>>
    /\ target_classes[3] = <<0, 0, 1>>
    /\ Len(loss_t) = 3

\* C17: in the confidence loss the target of a slot is 1 exactly at the
\* (image, slot) coordinates the Assignment names and 0 elsewhere, its weight
\* is 1 at those coordinates and eos_coef elsewhere, and the loss gives every
\* entry its weight over the number of entries; with eos_coef = 1 every
\* weight is 1 and the loss is the unweighted mean binary cross-entropy over
\* all batch x slots entries.
MatchedSlot(b, s) == \E p \in 1..Len(indices[b][1]) : indices[b][1][p] = s - 1
AllEntries == {bs \in (1..Len(box_scores)) \X (1..MaxQueries + 1) : bs[2] <= Len(box_scores[bs[1]])}
EntryTerm(bs) ==
    [fn |-> "bce", over |-> {<<bs[1] - 1, bs[2] - 1>>}, at |-> <<bs[1] - 1, bs[2] - 1>>,
     y |-> IF MatchedSlot(bs[1], bs[2]) THEN 1 ELSE 0]
C17_ConfidenceTargets ==
    /\ fpc \in {"line147", "line149", "returned"} =>
          /\ Len(target_classes) = Len(box_scores)
          /\ \A bs \in AllEntries :
                target_classes[bs[1]][bs[2]] = IF MatchedSlot(bs[1], bs[2]) THEN 1 ELSE 0
    /\ fpc \in {"line149", "returned"} =>
          \A bs \in AllEntries :
              /\ weight[bs[1]][bs[2]] =
                    IF MatchedSlot(bs[1], bs[2]) THEN <<1, 1>> ELSE self.eos_coef
              /\ self.eos_coef = <<1, 1>> => weight[bs[1]][bs[2]] = <<1, 1>>
    /\ fpc = "returned" =>
          /\ Terms(loss_conf) = {EntryTerm(bs) : bs \in AllEntries}
          /\ \A bs \in AllEntries :
                /\ FEq(Coef(loss_conf, EntryTerm(bs)),
                       FMul(IF MatchedSlot(bs[1], bs[2]) THEN <<1, 1>> ELSE self.eos_coef,
                            <<1, Cardinality(AllEntries)>>))
                /\ self.eos_coef = <<1, 1>> =>
                      FEq(Coef(loss_conf, EntryTerm(bs)), <<1, Cardinality(AllEntries)>>)

C17_Witness ==
    /\ fpc = "returned"
    /\ self.eos_coef = <<1, 1>>
    /\ Len(box_scores) = 2
    /\ Len(box_scores[1]) = 3
    /\ indices[1][1] = <<2, 0>>
    /\ indices[2][1] = <<>>
    /\ target_classes = << <<1, 0, 1>>, <<0, 0, 0>> >>

\* ---------------------------------------------------------------------- C18
\* The box pair a matched row predicts, and the pair its matched interaction
\* names: the boxes of its subject and of its object in the image's box list.
BoxesComputed == fpc \in {"line173", "returned"}
MatchedPairs == TargetRows(indices)
PredictedOf(r) ==
    pred_boxes[get_src_permutation_idx(indices)[1][r] + 1]
              [get_src_permutation_idx(indices)[2][r] + 1]
DereferencedOf(r) ==
    LET t == targets[MatchedPairs[r][1] + 1]
        hoi == t.hois[MatchedPairs[r][2] + 1]
    IN  <<t.boxes[hoi.subject_id + 1], t.boxes[hoi.object_id + 1]>>
ExactRows == {r \in 1..Len(MatchedPairs) : PredictedOf(r) = DereferencedOf(r)}
RowIsZero(r) ==
    /\ \A c \in 1..4 : box_terms.loss_pbbox[r][c] = 0 /\ box_terms.loss_obbox[r][c] = 0
    /\ FEq(box_terms.loss_pgiou[r], <<0, 1>>)
    /\ FEq(box_terms.loss_ogiou[r], <<0, 1>>)

\* C18: in the box loss every matched prediction whose subject and object boxes
\* equal the boxes dereferenced from its matched interaction has all its L1
\* terms and both its GIoU terms equal to 0, and when every matched prediction
\* is such a one loss_bbox and loss_giou are 0.
C18_ExactBoxesContributeZero ==
    /\ BoxesComputed => \A r \in ExactRows : RowIsZero(r)
    /\ (fpc = "returned" /\ ExactRows = 1..Len(MatchedPairs)) =>
          /\ FEq(box_losses["loss_bbox"], <<0, 1>>)
          /\ FEq(box_losses["loss_giou"], <<0, 1>>)

\* Two matched predictions, the first exact with the person listed second, the
\* other one off its target: only the second contributes.
C18_Witness ==
    /\ fpc = "returned"
    /\ Len(MatchedPairs) = 2
    /\ ExactRows = {1}
    /\ targets[1].hois[MatchedPairs[1][2] + 1].subject_id = 1
    /\ targets[1].boxes[1] # targets[1].boxes[2]
    /\ RowIsZero(1)
    /\ ~RowIsZero(2)
    /\ ~FEq(box_losses["loss_bbox"], <<0, 1>>)

\* C21: in training with class compression the Label Resolver gives every
\* global hoi_id of the batch's targets, matched or not, the number of distinct
\* ids that first appear before it in the enumeration of the targets (images
\* in batch order, interactions in record order): an injection onto 0..C-1, C
\* the number of distinct ids, which is the same for every Assignment; and
\* target_classes_i[k] is the local id of the k-th matched target's hoi_id.
LocalId(g) == ColumnOf(g) - 1
UnmatchedIds == {g \in BatchIds : MatchedOfClass(g) = {}}
C21_FirstAppearanceMapping ==
    (fpc # "line87" /\ self.training /\ ~self.consider_all) =>
        /\ unique_hois(targets) = [g \in BatchIds |-> LocalId(g)]
        /\ {LocalId(g) : g \in BatchIds} = 0..(Cardinality(BatchIds) - 1)
        /\ \A g, h \in BatchIds : LocalId(g) = LocalId(h) => g = h
        /\ Len(target_classes_i) = Len(MatchedPairs)
        /\ \A k \in 1..Len(MatchedPairs) :
              target_classes_i[k] =
                  LocalId(targets[MatchedPairs[k][1] + 1].hois[MatchedPairs[k][2] + 1].hoi_id)
        /\ target_classes_t.shape[2] = Cardinality(BatchIds)

\* One slot, two interactions of classes 2 and 0, the second one matched: the
\* unmatched class 2 has taken the local id 0.
C21_Witness ==
    /\ fpc = "line88"
    /\ self.training /\ ~self.consider_all
    /\ Len(targets) = 1
    /\ AllHoiIds(targets) = <<2, 0>>
    /\ indices = << << <<0>>, <<1>> >> >>
    /\ UnmatchedIds = {2}
    /\ target_classes_i = <<1>>

\* C22: at inference, and in training with consider_all set, the Label
\* Resolver returns as target_classes_i the global hoi_id of every matched
\* target in assignment order, and no target_classes_t.
C22_GlobalIdsOutsideCompression ==
    (fpc # "line87" /\ (~self.training \/ self.consider_all)) =>
        /\ Len(target_classes_i) = Len(MatchedPairs)
        /\ \A k \in 1..Len(MatchedPairs) :
              target_classes_i[k] =
                  targets[MatchedPairs[k][1] + 1].hois[MatchedPairs[k][2] + 1].hoi_id
        /\ target_classes_t = None

C22_Witness ==
    /\ fpc = "line88"
    /\ self.training /\ self.consider_all
    /\ Len(targets) = 2
    /\ AllHoiIds(targets) = <<2, 0, 2>>
    /\ Len(MatchedPairs) = 3
    /\ target_classes_i = <<0, 2, 2>>
    /\ target_classes_t = None

\* C23 (as claimed): in contrastive mode with at least one matched prediction
\* loss_ce is, in training, the average of the image->text term and of the
\* text->image term, the masked multi-label cross-entropy of the first C
\* columns of the matched logits, transposed, against the transposed indicator
\* matrix (C the batch-local class count); at inference it is the image->text
\* term alone.
C23_ContrastiveAverage ==
    (fpc = "returned" /\ ~self.enable_focal_loss /\ PairTotal(indices) >= 1) =>
        /\ loss_ce.ok
        /\ ~loss_ce.nan
        /\ self.training =>
              SameValue(loss_ce.value, Scale(AverageOfTerms \o TextToImage, <<1, 2>>))
        /\ ~self.training => SameValue(loss_ce.value, AverageOfTerms)

\* ------------------------------------------------------------- C24 and C25
\* The terms of the returned sum that read row r of the logits, the positive
\* columns of row r of the indicator, and the sub-problem of a positive column:
\* the row restricted to its negative columns and j, against the position of j
\* among the kept columns.
NumRows == Len(target_classes)
NumPos(r) == SumSeq(target_classes[r])
RowTerms(r) == SelectSeq(loss_t, LAMBDA e : \A a \in e.term.over : a[1] = r)
PositiveColumns(r) == {c \in 1..Len(target_classes[r]) : target_classes[r][c] = 1}
NegativeColumns(r) == {c \in 1..Len(target_classes[r]) : target_classes[r][c] = 0}
KeptOf(r, j) == NegativeColumns(r) \cup {j}
KeptInOrder(r, j) == SelectSeq(Positions(Len(target_classes[r])), LAMBDA c : c \in KeptOf(r, j))
PositionWithin(r, j) == Cardinality({c \in KeptOf(r, j) : c < j})
SubProblem(r, j) ==
    CETerm([q \in 1..Cardinality(KeptOf(r, j)) |-> src_logits[r][KeptInOrder(r, j)[q]]],
           PositionWithin(r, j))

\* C24: for a row with k >= 2 positive columns the masked cross-entropy forms
\* exactly k sub-problems, one per positive column j, each over the row's
\* negative columns plus j with the position of j among them as target, and
\* the row contributes the sum of the k cross-entropies divided by k.
C24_MultiPositiveRows ==
    fpc = "returned" =>
        \A r \in 1..NumRows : NumPos(r) >= 2 =>
            /\ Len(RowTerms(r)) = NumPos(r)
            /\ Terms(RowTerms(r)) = {SubProblem(r, j) : j \in PositiveColumns(r)}
            /\ \A j \in PositiveColumns(r) :
                  /\ SubProblem(r, j).over = {<<r, c>> : c \in KeptOf(r, j)}
                  /\ SubProblem(r, j).at = <<r, j>>
                  /\ FEq(FMul(Coef(RowTerms(r), SubProblem(r, j)), <<NumRows, 1>>),
                         <<1, NumPos(r)>>)

C24_Witness ==
    /\ fpc = "returned"
    /\ target_classes = << <<1, 0, 1>>, <<0, 1, 0>> >>
    /\ Len(RowTerms(1)) = 2
    /\ SubProblem(1, 3).over = {<<1, 2>>, <<1, 3>>}
    /\ PositionWithin(1, 3) = 1

\* C25: the masked cross-entropy is the sum of the terms of the rows of the
\* single-positive branch, each taken once, and of the k terms of every row
\* with k >= 2 positives, each divided by k, the whole divided by the number
\* of rows of the input: every row, whichever branch it took, weighs one over
\* the number of rows, and there is no other term.
SingleBranchRows == {r \in 1..NumRows : NumPos(r) < 2}
MultiBranchRows == {r \in 1..NumRows : NumPos(r) >= 2}
C25_DividedByAllRows ==
    fpc = "returned" =>
        /\ Len(loss_t) = Cardinality(SingleBranchRows)
                           + SumSeq([r \in 1..NumRows |-> IF NumPos(r) >= 2 THEN NumPos(r) ELSE 0])
        /\ \A r \in 1..NumRows : FEq(TotalWeight(RowTerms(r)), <<1, NumRows>>)
        /\ \A r \in SingleBranchRows :
              /\ Len(RowTerms(r)) = 1
              /\ RowTerms(r)[1].term.over = Range(src_logits[r])
              /\ NumPos(r) = 1 => RowTerms(r)[1].term.at = src_logits[r][PositiveOf(r)]
        /\ \A r \in MultiBranchRows : \A q \in 1..Len(RowTerms(r)) :
              FEq(RowTerms(r)[q].w, <<1, NumPos(r) * NumRows>>)

C25_Witness ==
    /\ fpc = "returned"
    /\ target_classes = << <<1, 1>>, <<0, 1>>, <<1, 0>> >>
    /\ Len(loss_t) = 4
    /\ FEq(RowTerms(1)[1].w, <<1, 6>>)
    /\ FEq(RowTerms(2)[1].w, <<1, 3>>)

\* C26: in the box loss the k-th matched prediction is compared with its own
\* target pair only, the boxes subject_id and object_id of the k-th matched
\* interaction of its image name: its L1 terms are the coordinate distances to
\* that pair and its GIoU terms are 1 - GIoU with that pair; loss_bbox and
\* loss_giou are the subject sum plus the object sum over the matched pairs,
\* divided by num_boxes, whatever the number of matched pairs is.
OwnL1(k, which) ==
    [c \in 1..4 |-> Abs(PredictedOf(k)[which][c] - DereferencedOf(k)[which][c])]
OwnGiouLoss(k, which) ==
    FSub(<<1, 1>>, box_giou(box_cxcywh_to_xyxy(PredictedOf(k)[which]),
                            box_cxcywh_to_xyxy(DereferencedOf(k)[which])))
OverNumBoxes(f) == FMul(f, <<num_boxes[2], num_boxes[1]>>)
C26_OwnTargetOverNormalizer ==
    /\ BoxesComputed =>
          /\ Len(box_terms.loss_pbbox) = Len(MatchedPairs)
          /\ Len(box_terms.loss_pgiou) = Len(MatchedPairs)
          /\ \A k \in 1..Len(MatchedPairs) :
                /\ box_terms.loss_pbbox[k] = OwnL1(k, 1)
                /\ box_terms.loss_obbox[k] = OwnL1(k, 2)
                /\ FEq(box_terms.loss_pgiou[k], OwnGiouLoss(k, 1))
                /\ FEq(box_terms.loss_ogiou[k], OwnGiouLoss(k, 2))
    /\ fpc = "returned" =>
          /\ FEq(box_losses["loss_bbox"],
                 FAdd(OverNumBoxes(FSum([k \in 1..Len(MatchedPairs) |-> <<SumSeq(OwnL1(k, 1)), 1>>])),
                      OverNumBoxes(FSum([k \in 1..Len(MatchedPairs) |-> <<SumSeq(OwnL1(k, 2)), 1>>]))))
          /\ FEq(box_losses["loss_giou"],
                 FAdd(OverNumBoxes(FSum([k \in 1..Len(MatchedPairs) |-> OwnGiouLoss(k, 1)])),
                      OverNumBoxes(FSum([k \in 1..Len(MatchedPairs) |-> OwnGiouLoss(k, 2)]))))

\* Two interactions and one slot: one matched pair and num_boxes = 2.  The
\* prediction is exact for the subject and one unit off for the object.
C26_Witness ==
    /\ fpc = "returned"
    /\ Len(targets[1].hois) = 2
    /\ Len(MatchedPairs) = 1
    /\ num_boxes = <<2, 1>>
    /\ SumSeq(OwnL1(1, 1)) = 0
    /\ SumSeq(OwnL1(1, 2)) = 1
    /\ FEq(box_losses["loss_bbox"], <<1, 2>>)

\* C27: for every auxiliary layer the loss functions invoked are boxes and
\* then confidences, whatever self.losses holds: never another one, and both
\* of them once the layer is left without an exception; and the matcher is
\* invoked for the layer on the layer's dict, with its own pred_boxes and
\* box_scores, to which the logits_per_hoi of the top-level outputs are added.
LossNamesOf(layer) ==
    LET events == SelectSeq([j \in 1..Len(log) |-> log[j]],
                            LAMBDA e : e.ev = "loss" /\ e.layer = layer)
    IN  [q \in 1..Len(events) |-> events[q].name]
AuxLayers == 0..(Len(aux_outputs) - 1)
LayerLeft(i) ==
    \/ pc \in {"return", "done"}
    \/ \E j \in MatcherEvents : log[j].layer > i
C27_AuxLossesFixed ==
    /\ \A i \in AuxLayers :
          /\ LossNamesOf(i) \in {<<>>, <<"boxes">>, <<"boxes", "confidences">>}
          /\ LayerLeft(i) => LossNamesOf(i) = <<"boxes", "confidences">>
          /\ (LossNamesOf(i) = <<"boxes">> /\ pc # "failed") => (pc = "aux_loss" /\ ai = i)
    /\ \A j \in MatcherEvents : log[j].layer # Primary =>
          LET seen == aux_outputs[log[j].layer + 1]
              given == before.aux_outputs[log[j].layer + 1]
          IN  /\ DOMAIN seen = DOMAIN given \cup {"logits_per_hoi"}
              /\ \A k \in {"pred_boxes", "box_scores"} \cap DOMAIN given : seen[k] = given[k]
              /\ seen["logits_per_hoi"] = outputs["logits_per_hoi"]
              /\ log[j].ind = matcher(seen, targets)

\* The enabled losses are labels and masks only, and both layers have had
\* their boxes and confidences losses, on Assignments of their own.
C27_Witness ==
    /\ pc = "done"
    /\ call = 1
    /\ self.losses = <<"labels", "masks">>
    /\ Len(aux_outputs) = 2
    /\ LossNamesOf(0) = <<"boxes", "confidences">>
    /\ LossNamesOf(1) = <<"boxes", "confidences">>
    /\ LossNamesOf(Primary) = <<"labels", "masks">>
    /\ before.aux_outputs[1]["pred_boxes"] # before.aux_outputs[2]["pred_boxes"]
    /\ \A i \in 1..2 : DOMAIN before.aux_outputs[i] = {"pred_boxes", "box_scores"}

\* ---------------------------------------------------------------------- C28
\* The image and the slot of the k-th matched prediction, and the masks its
\* matched interaction names.
ImageOf(k) == BatchIdxOf(indices)[k]
SlotOf(k) == SrcIdxOf(indices)[k]
MasksGathered == fpc \in {"line216", "returned"}
InteractionOf(k) == targets[MatchedPairs[k][1] + 1].hois[MatchedPairs[k][2] + 1]
MaskOf(k, box) == targets[MatchedPairs[k][1] + 1].mask_region_hw[box + 1]
TargetMasksDereferenced ==
    \A k \in 1..Len(MatchedPairs) :
        /\ target_masks.hum[k] = MaskOf(k, InteractionOf(k).subject_id)
        /\ target_masks.obj[k] = MaskOf(k, InteractionOf(k).object_id)
        /\ \A i \in 1..PatchDim : \A j \in 1..PatchDim :
              target_masks.uni[k][i][j] =
                  IF target_masks.hum[k][i][j] >= target_masks.obj[k][i][j]
                  THEN target_masks.hum[k][i][j] ELSE target_masks.obj[k][i][j]

FocalLabelsBuilt == focal_via = "loss_labels" /\ fpc \in {"line68", "line72", "line94", "returned"}
OnesOfRow(r) == {c \in 1..Len(focal_xy.y[r]) : focal_xy.y[r][c] = 1}
ZerosOfRow(r) == {c \in 1..Len(focal_xy.y[r]) : focal_xy.y[r][c] = 0}
FocalTermsOf(v) == {v[i].term : i \in 1..Len(v)}
LogitOf(r, c) == <<ImageOf(r), SlotOf(r), c - 1>>

\* C29: in focal mode the classification target has one row per matched
\* prediction over all NumClasses classes, with exactly one 1 per row at the
\* column target_classes_i gives for that prediction and 0 elsewhere; loss_ce
\* is the sum of the focal terms of all matched rows and classes, each
\* weighted by one over the number of matched predictions, whatever the
\* normalizer num_boxes is; it is the value labels_loss computes.
C29_FocalOneHotOverMatched ==
    FocalLabelsBuilt =>
        /\ Len(MatchedPairs) >= 1
        /\ Len(focal_xy.y) = Len(MatchedPairs)
        /\ focal_xy.x = [r \in 1..Len(MatchedPairs) |-> [c \in 1..NumClasses |-> LogitOf(r, c)]]
        /\ \A r \in 1..Len(MatchedPairs) :
              /\ Len(focal_xy.y[r]) = NumClasses
              /\ OnesOfRow(r) = {target_classes_i[r] + 1}
              /\ ZerosOfRow(r) = (1..NumClasses) \ {target_classes_i[r] + 1}
        /\ fpc = "returned" =>
              /\ loss_ce.ok /\ ~loss_ce.nan
              /\ Len(loss_ce.value) = Len(MatchedPairs) * NumClasses
              /\ FocalTermsOf(loss_ce.value) =
                    {FocalTerm(LogitOf(r, c), focal_xy.y[r][c]) :
                        r \in 1..Len(MatchedPairs), c \in 1..NumClasses}
              /\ \A i \in 1..Len(loss_ce.value) :
                    FEq(loss_ce.value[i].w, <<1, Len(MatchedPairs)>>)
              /\ loss_ce = labels_loss(idx, target_classes_i, target_classes_t, cfg)

\* Two interactions for one slot: one matched prediction, a normalizer of 2,
\* and the matched interaction is the second one, of a class other than 0.
C29_Witness ==
    /\ focal_via = "loss_labels"
    /\ fpc = "returned"
    /\ Len(MatchedPairs) = 1
    /\ num_boxes = <<2, 1>>
    /\ target_classes_i[1] = 2
    /\ focal_xy.y = << <<0, 0, 1>> >>
    /\ \A i \in 1..Len(loss_ce.value) : loss_ce.value[i].w = <<1, 1>>

\* ---------------------------------------------------------------------- C30
Accepted == {"mean", "sum", "none"}
HelperLeft == focal_ret # <<>>

\* C30: the focal-loss helper returns for the reductions 'mean', 'sum' and
\* 'none' (the mean, the sum, the unreduced element-wise loss) and for any
\* other word raises a ValueError whose message ends with that word, with
\* nothing computed after it; loss_labels calls it with 'sum' only, so the
\* error never occurs on that path.
C30_ReductionModes ==
    /\ HelperLeft =>
          /\ focal_ret.ok <=> reduction \in Accepted
          /\ ~focal_ret.ok =>
                /\ focal_ret.err = "ValueError"
                /\ focal_ret.msg = "Unsupported reduction method " \o reduction
                /\ fpc = "raised"
                /\ loss_ce = <<>>
          /\ reduction = "none" => focal_ret.kind = "tensor" /\ focal_ret.value = focal_elems
          /\ reduction \in {"mean", "sum"} =>
                /\ focal_ret.kind = "scalar"
                /\ FocalTermsOf(focal_ret.value) = Range(Flatten(focal_elems))
                /\ \A i \in 1..Len(focal_ret.value) :
                      FEq(focal_ret.value[i].w,
                          IF reduction = "sum" THEN <<1, 1>>
                          ELSE <<1, Len(Flatten(focal_elems))>>)
    /\ focal_via = "loss_labels" =>
          /\ reduction \in {"unset", "sum"}
          /\ fpc \in {"line68", "line72", "line94", "returned"} => reduction = "sum"
          /\ HelperLeft => focal_ret.ok

\* The helper, called on a matrix of two rows, has raised for a word that is
\* not a reduction.
C30_Witness ==
    /\ focal_via = "direct"
    /\ reduction = "max"
    /\ fpc = "raised"
    /\ focal_ret.msg = "Unsupported reduction method max"
    /\ Len(focal_elems) = 2

====
